---- MODULE Spec2Model ----
(***************************************************************************)
(* The HelmRepository reconciler of source-controller as a state machine:  *)
(* the persisted object, the artifact store, the index cache, the remote   *)
(* index, and the position of each reconcile pass (worker) in              *)
(* HelmRepositoryReconciler.Reconcile and its sub-reconcilers.             *)
(***************************************************************************)
EXTENDS Integers, Sequences, FiniteSets, TLC

\* ---------------------------------------------------------------- bounds

\* Distinct remote index contents; a content is named by its number, which
\* also stands for the hex form of its digest.
NumContents == 2

\* Steps of the environment (edits, deletion, remote changes, lost files)
\* in one behaviour.
MaxEnvSteps == 1

\* External calls (patches, fetches, storage operations) that fail in one
\* behaviour.
MaxFaults == 1

Contents == 1..NumContents
Paths == Contents
\* The reconcile passes of the object that may be in flight: one at a time
\* under Spec, the two of a simulated overlap under SpecOverlap.
Workers == {1, 2}

\* ------------------------------------------------------ values and helpers

ResultEmpty == "empty"
ResultRequeue == "requeue"
ResultSuccess == "success"

HelmRepositoryTypeDefault == "default"
HelmRepositoryTypeOCI == "oci"
RepositoryTypes == {"", HelmRepositoryTypeDefault, HelmRepositoryTypeOCI}

StorageOperationFailedCondition == "StorageOperationFailed"
FetchFailedCondition == "FetchFailed"
ArtifactOutdatedCondition == "ArtifactOutdated"
ArtifactInStorageCondition == "ArtifactInStorage"
ReconcilingCondition == "Reconciling"

helmRepositoryFailConditions == {FetchFailedCondition, StorageOperationFailedCondition}

\* The canonical digest algorithm, and the algorithms a digest may name.
Canonical == "sha256"
Algorithms == {"sha256", "sha512"}

\* A digest string "<alg>:<hex>"; the empty string is EmptyDigest.  A
\* revision in the legacy format is the bare hex, written with alg "legacy".
EmptyDigest == [alg |-> "", hex |-> 0]
MkDigest(alg, c) == [alg |-> alg, hex |-> c]

\* digest.Digest.Validate() = nil
DigestValid(d) == d.alg \in Algorithms /\ d.hex \in Contents

\* ChartRepository.Digest(algorithm) of a fetched index with content c.
ChartRepoDigest(c, alg) == IF c \in Contents /\ alg \in Algorithms THEN MkDigest(alg, c) ELSE EmptyDigest

\* sourcev1.TransformLegacyRevision: a bare hex becomes "sha256:<hex>".
TransformLegacyRevision(rev) == IF rev.alg = "legacy" THEN MkDigest("sha256", rev.hex) ELSE rev

\* The zero value of sourcev1.Artifact.
ZeroArtifact == [path |-> 0, revision |-> EmptyDigest, checksum |-> 0, digest |-> EmptyDigest]

\* Storage.NewArtifactFor(kind, meta, revision, "index-<hex>.yaml").
NewArtifactFor(revision) == [path |-> revision.hex, revision |-> revision, checksum |-> 0, digest |-> EmptyDigest]

\* An artifact as an older release recorded it: bare-hex revision, checksum, no digest.
LegacyArtifact(c) == [path |-> c, revision |-> MkDigest("legacy", c), checksum |-> c, digest |-> EmptyDigest]

\* A *Artifact is a sequence of length 0 (nil) or 1.
\* Artifact.HasRevision
HasRevision(in, rev) == in # <<>> /\ TransformLegacyRevision(in[1].revision) = TransformLegacyRevision(rev)

\* Artifact.HasChecksum
HasChecksum(in, sum) == in # <<>> /\ in[1].checksum = sum

EmptyStatus == [artifact |-> <<>>, url |-> "", conditions |-> {}, observedGeneration |-> 0, lastHandledReconcileAt |-> 0]

\* conditions.MarkTrue / conditions.Delete on an object.
MarkTrue(o, c) == [o EXCEPT !.status.conditions = @ \cup {c}]
DeleteCondition(o, c) == [o EXCEPT !.status.conditions = @ \ {c}]

\* rreconcile.ProgressiveStatus: the object is marked Reconciling.
ProgressiveStatus(o) == MarkTrue(o, ReconcilingCondition)

\* sreconcile.LowestRequeuingResult
LowestRequeuingResult(i, j) == IF i = ResultEmpty THEN j ELSE IF j = ResultEmpty THEN i ELSE IF i = ResultRequeue THEN i ELSE j

\* The object's type is one this reconciler purges: neither empty nor default.
TypeChanged(o) == o.type # "" /\ o.type # HelmRepositoryTypeDefault

\* A newly created object, and one an older release already reconciled.
\* foreign: another controller's finalizer is on the object.
FreshObject(t) == [exists |-> TRUE, finalizer |-> FALSE, foreign |-> FALSE, deleted |-> FALSE, type |-> t, suspend |-> FALSE, generation |-> 1, reconcileAt |-> 0, status |-> EmptyStatus]
\* The object after the API server removed it.
GoneObject == [FreshObject("") EXCEPT !.exists = FALSE]
MigratedObject(c) == [FreshObject(HelmRepositoryTypeDefault) EXCEPT !.finalizer = TRUE, !.status = [EmptyStatus EXCEPT !.artifact = <<LegacyArtifact(c)>>, !.url = "current", !.conditions = {ArtifactInStorageCondition}, !.observedGeneration = 1]]

\* An artifact stored while the canonical algorithm was configured as alg.
StoredArtifact(alg, c) == [path |-> c, revision |-> MkDigest(alg, c), checksum |-> c, digest |-> MkDigest(alg, c)]
RestartedObject(a) == [MigratedObject(a.path) EXCEPT !.status.artifact = <<a>>]
\* The same object after a pass whose index download failed.
FailedObject(a) == [RestartedObject(a) EXCEPT !.status.conditions = @ \cup {FetchFailedCondition, ReconcilingCondition}]
\* The same object, suspended by its user while the controller was down.
SuspendedObject(a) == [RestartedObject(a) EXCEPT !.suspend = TRUE]
\* The same object after a pass that could not write a changed index to the
\* store, the remote index since back at the content of the stored artifact.
StorageFailedObject(a) == [RestartedObject(a) EXCEPT !.status.conditions = @ \cup {StorageOperationFailedCondition, ArtifactOutdatedCondition, ReconcilingCondition}]

\* ChartRepository: the temporary index file's content (0: none) and whether
\* the index was loaded (Index != nil).
ZeroChartRepo == [path |-> 0, index |-> FALSE]

VARIABLES
    api,          \* the persisted HelmRepository object
    remote,       \* content of the remote index
    files,        \* Storage: path -> "absent" | "partial" | "complete"
    alias,        \* Storage: target of the index.yaml symlink (0: none)
    locks,        \* Storage: path -> worker holding its lock (0: free)
    cache,        \* Cache: the keys that hold an index
    useCache,     \* r.Cache != nil
    event,        \* the event a predicate is asked about
    predicate,    \* the predicate asked: HelmRepositoryTypePredicate's fields
    verdict,      \* the method that answered, and its answer
    envSteps,     \* steps the environment has taken
    faults,       \* external calls that have failed
    pc,           \* per worker: position in Reconcile
    obj,          \* per worker: working copy of the object
    oldObj,       \* per worker: obj.DeepCopy() taken by reconcile()
    artifact,     \* per worker: the candidate Artifact slot
    chartRepo,    \* per worker: the ChartRepository slot
    recResult,    \* per worker: sreconcile.Result
    retErr,       \* per worker: the error ("" is nil)
    tmp,          \* per worker: a temporary file of an unfinished copy exists
    patched,      \* per worker: the SerialPatcher's base, the object as last patched
    loaded,       \* per worker: the object as r.Get returned it
    before,       \* per worker: the store and cache when the pass began
    ops           \* per worker: the operations of the pass so far

predVars == <<event, predicate, verdict>>
vars == <<api, envSteps, faults, remote, files, alias, locks, cache, useCache, event, predicate, verdict, pc, obj, oldObj, artifact, chartRepo, recResult, retErr, tmp, patched, loaded, before, ops>>
storeVars == <<files, alias, locks, cache>>
envVars == <<remote, useCache, predVars, envSteps, faults>>

Log(w, e) == ops' = [ops EXCEPT ![w] = @ \o e]

Idle(w) == pc[w] = "idle"
Quiet == \A w \in Workers : Idle(w)
EnvStep == Quiet /\ envSteps < MaxEnvSteps /\ envSteps' = envSteps + 1 /\ faults' = faults

\* n external calls fail in this step.
Faulty(n) == faults + n <= MaxFaults /\ faults' = faults + n
Failed(ok) == IF ok THEN 0 ELSE 1

\* No event has been put to a predicate.
NoEvent == [kind |-> "none"]
NoVerdict == [by |-> "none", value |-> FALSE]

\* The controller, its object and its store when the controller starts.
InitController ==
    /\ \/ /\ \E t \in {"", HelmRepositoryTypeDefault} : \E f \in BOOLEAN : api = [FreshObject(t) EXCEPT !.foreign = f]
          /\ files = [p \in Paths |-> "absent"]
          /\ alias = 0
       \/ /\ api \in {MigratedObject(1), RestartedObject(StoredArtifact("sha512", 1)), RestartedObject(StoredArtifact("unknown", 1)), FailedObject(StoredArtifact("sha512", 1)), StorageFailedObject(StoredArtifact("sha512", 1)), SuspendedObject(StoredArtifact("sha512", 1))}
          /\ files = [p \in Paths |-> IF p = 1 THEN "complete" ELSE "absent"]
          /\ alias = 1
       \/ /\ api = RestartedObject(StoredArtifact("sha512", 1))
          /\ files = [p \in Paths |-> "absent"]
          /\ alias = 0
    /\ remote = 1
    /\ envSteps = 0
    /\ faults = 0
    /\ locks = [p \in Paths |-> 0]
    /\ cache = {}
    /\ useCache \in BOOLEAN
    /\ pc = [w \in Workers |-> "idle"]
    /\ obj = [w \in Workers |-> FreshObject("")]
    /\ oldObj = [w \in Workers |-> FreshObject("")]
    /\ artifact = [w \in Workers |-> ZeroArtifact]
    /\ chartRepo = [w \in Workers |-> ZeroChartRepo]
    /\ recResult = [w \in Workers |-> ResultEmpty]
    /\ retErr = [w \in Workers |-> ""]
    /\ tmp = [w \in Workers |-> FALSE]
    /\ patched = [w \in Workers |-> FreshObject("")]
    /\ loaded = [w \in Workers |-> FreshObject("")]
    /\ before = [w \in Workers |-> <<>>]
    /\ ops = [w \in Workers |-> <<>>]

Init ==
    /\ InitController
    /\ event = NoEvent
    /\ predicate = [RepositoryType |-> HelmRepositoryTypeDefault]
    /\ verdict = NoVerdict

\* ------------------------------------------------------------- patching

\* What a merge patch of working copy o against base b leaves on the persisted
\* object a: the fields the pass changed since b are written, the rest of a
\* (the user's spec, another writer's status) is kept.
MergeConditions(a, b, o) == {c \in a \cup o : IF (c \in o) # (c \in b) THEN c \in o ELSE c \in a}
MergeStatus(a, b, o) ==
    [artifact |-> IF o.artifact # b.artifact THEN o.artifact ELSE a.artifact,
     url |-> IF o.url # b.url THEN o.url ELSE a.url,
     conditions |-> MergeConditions(a.conditions, b.conditions, o.conditions),
     observedGeneration |-> IF o.observedGeneration # b.observedGeneration THEN o.observedGeneration ELSE a.observedGeneration,
     lastHandledReconcileAt |-> IF o.lastHandledReconcileAt # b.lastHandledReconcileAt THEN o.lastHandledReconcileAt ELSE a.lastHandledReconcileAt]
MergePatch(a, b, o) ==
    LET fin == IF o.finalizer # b.finalizer THEN o.finalizer ELSE a.finalizer
    IN IF a.deleted /\ ~fin /\ ~a.foreign THEN GoneObject
       ELSE [a EXCEPT !.finalizer = fin, !.status = MergeStatus(a.status, b.status, o.status)]

\* sp.Patch(ctx, obj): ok is whether the API server accepted it.  A patch of
\* an object that is gone fails.
PatchOK(ok) == ok /\ api.exists
Patch(w, o, ok) ==
    /\ api' = IF PatchOK(ok) THEN MergePatch(api, patched[w], o) ELSE api
    /\ patched' = [patched EXCEPT ![w] = IF PatchOK(ok) THEN o ELSE @]

\* ------------------------------------------------------ garbage collection

\* garbageCollect(obj): ok is whether the Storage call succeeded, del the
\* files it removed.  Purge removes the object's whole directory, retention
\* collection only files other than the current artifact's.
GCPurges(o) == o.deleted \/ TypeChanged(o)
Present == {p \in Paths : files[p] # "absent"}
GCRemovable(o, ok) ==
    IF GCPurges(o) THEN (IF ok THEN {Present} ELSE SUBSET Present)
    ELSE IF o.status.artifact = <<>> THEN {{}}
    ELSE SUBSET (Present \ {o.status.artifact[1].path})
\* garbageCollect, lines 665 and 682: whether it calls the store at all.
GCCalls(o) == GCPurges(o) \/ o.status.artifact # <<>>
\* A purge that clears the artifact and the conditions and leaves the URL.
GCObjKeepsURL(o, ok) ==
    IF GCPurges(o) /\ ok
    THEN [o EXCEPT !.status.artifact = <<>>, !.status.conditions = {}]
    ELSE o
GCObj(o, ok) ==
    IF GCPurges(o) /\ ok
    THEN [o EXCEPT !.status.artifact = <<>>, !.status.url = "", !.status.conditions = {}]
    ELSE o
GCErr(o, ok) ==
    IF GCPurges(o) THEN (IF ok THEN "" ELSE "GarbageCollectionFailed")
    ELSE IF o.status.artifact # <<>> /\ ~ok THEN "GarbageCollectionFailed" ELSE ""
GCFiles(del) == [p \in Paths |-> IF p \in del THEN "absent" ELSE files[p]]
\* Removing the directory removes the index.yaml symlink with it.
GCAlias(o, ok) == IF GCPurges(o) /\ ok THEN 0 ELSE alias

\* ------------------------------------------------------------ Reconcile

\* Reconcile, lines 165-207: r.Get, the serial patcher, the deferred
\* SummarizeAndPatch registered.
Load(w) ==
    /\ Idle(w)
    /\ api.exists
    /\ pc' = [pc EXCEPT ![w] = "dispatch"]
    /\ UNCHANGED <<api, tmp, storeVars>>
    /\ obj' = [obj EXCEPT ![w] = api]
    /\ loaded' = [loaded EXCEPT ![w] = api]
    /\ before' = [before EXCEPT ![w] = <<files, alias, cache>>]
    /\ patched' = [patched EXCEPT ![w] = api]
    /\ oldObj' = [oldObj EXCEPT ![w] = api]
    /\ artifact' = [artifact EXCEPT ![w] = ZeroArtifact]
    /\ chartRepo' = [chartRepo EXCEPT ![w] = ZeroChartRepo]
    /\ recResult' = [recResult EXCEPT ![w] = ResultEmpty]
    /\ retErr' = [retErr EXCEPT ![w] = ""]
    /\ ops' = [ops EXCEPT ![w] = <<>>]

ReconcileBegin(w) == Load(w) /\ UNCHANGED envVars

\* Reconcile, lines 171-173: the object is gone, the pass returns at once.
ReconcileNotFound(w) ==
    /\ Idle(w)
    /\ ~api.exists
    /\ pc' = [pc EXCEPT ![w] = "done"]
    /\ Log(w, <<"notFound">>)
    /\ UNCHANGED <<api, obj, loaded, before, patched, oldObj, artifact, chartRepo, recResult, retErr, tmp, storeVars, envVars>>

\* A dispatch that purges only on deletion, not on a type change.
BranchDeletionOnly(o) ==
    IF ~o.finalizer THEN "finalizer"
    ELSE IF o.deleted THEN "delete"
    ELSE IF o.suspend THEN "suspended"
    ELSE "reconcile"

\* A dispatch that looks at deletion before it looks at the finalizer.
BranchDeleteFirst(o) ==
    IF o.deleted \/ TypeChanged(o) THEN "delete"
    ELSE IF ~o.finalizer THEN "finalizer"
    ELSE IF o.suspend THEN "suspended"
    ELSE "reconcile"

\* A dispatch without the suspend check.
BranchNoSuspend(o) ==
    IF ~o.finalizer THEN "finalizer"
    ELSE IF o.deleted \/ TypeChanged(o) THEN "delete"
    ELSE "reconcile"

\* A dispatch that does not stop to add the finalizer.
BranchNoFinalizer(o) ==
    IF o.deleted \/ TypeChanged(o) THEN "delete"
    ELSE IF o.suspend THEN "suspended"
    ELSE "reconcile"

\* A dispatch that looks at the suspension before the deletion.
BranchSuspendFirst(o) ==
    IF ~o.finalizer THEN "finalizer"
    ELSE IF o.suspend THEN "suspended"
    ELSE IF o.deleted \/ TypeChanged(o) THEN "delete"
    ELSE "reconcile"

\* Reconcile, lines 211, 219 and 225: the branch the pass takes.
Branch(o) ==
    IF ~o.finalizer THEN "finalizer"
    ELSE IF o.deleted \/ TypeChanged(o) THEN "delete"
    ELSE IF o.suspend THEN "suspended"
    ELSE "reconcile"

\* A return that the deferred function does not see.
NotDeferred == "done"

\* Where a return of Reconcile leads: to the deferred function of lines 186-207.
Deferred == "summarize"

\* Reconcile, lines 209-215.
AddFinalizer(w) ==
    /\ pc[w] = "dispatch"
    /\ Branch(obj[w]) = "finalizer"
    /\ obj' = [obj EXCEPT ![w].finalizer = TRUE]
    /\ recResult' = [recResult EXCEPT ![w] = ResultRequeue]
    /\ pc' = [pc EXCEPT ![w] = Deferred]
    /\ Log(w, <<"finalizer">>)
    /\ UNCHANGED <<api, loaded, before, patched, oldObj, artifact, chartRepo, retErr, tmp, storeVars, envVars>>

\* A reconcileDelete that drops the finalizer whatever garbageCollect returned.
DeleteResultAlways(o, gcErr) == IF o.deleted THEN [o EXCEPT !.finalizer = FALSE] ELSE o

\* A reconcileDelete that drops the finalizer of an object not under deletion too.
DeleteResultTypeChange(o, gcErr) == IF gcErr # "" THEN o ELSE [o EXCEPT !.finalizer = FALSE]

\* reconcileDelete's own steps after garbageCollect returned gcErr.
DeleteResult(o, gcErr) ==
    IF gcErr # "" THEN o
    ELSE IF o.deleted THEN [o EXCEPT !.finalizer = FALSE] ELSE o

\* Reconcile, lines 217-222, with reconcileDelete and its garbageCollect.
ReconcileDelete(w) ==
    /\ pc[w] = "dispatch"
    /\ Branch(obj[w]) = "delete"
    /\ \E ok \in BOOLEAN : \E del \in GCRemovable(obj[w], ok) :
          /\ files' = GCFiles(del)
          /\ alias' = GCAlias(obj[w], ok)
          /\ obj' = [obj EXCEPT ![w] = DeleteResult(GCObj(obj[w], ok), GCErr(obj[w], ok))]
          /\ retErr' = [retErr EXCEPT ![w] = GCErr(obj[w], ok)]
          /\ Faulty(Failed(ok))
          /\ Log(w, <<"delete", "purge">> \o (IF ok THEN <<>> ELSE <<"purgeFailed">>))
    /\ recResult' = [recResult EXCEPT ![w] = ResultEmpty]
    /\ pc' = [pc EXCEPT ![w] = Deferred]
    /\ UNCHANGED <<api, loaded, before, patched, oldObj, artifact, chartRepo, tmp, locks, cache, remote, useCache, predVars, envSteps>>

\* A suspended pass that reports success.
SuspendedResultSuccess == ResultSuccess

\* Reconcile, line 227: the result of a suspended pass.
SuspendedResult == ResultEmpty

\* Reconcile, lines 224-229.
Suspended(w) ==
    /\ pc[w] = "dispatch"
    /\ Branch(obj[w]) = "suspended"
    /\ recResult' = [recResult EXCEPT ![w] = SuspendedResult]
    /\ retErr' = [retErr EXCEPT ![w] = ""]
    /\ pc' = [pc EXCEPT ![w] = Deferred]
    /\ Log(w, <<"suspended">>)
    /\ UNCHANGED <<api, obj, loaded, before, patched, oldObj, artifact, chartRepo, tmp, storeVars, envVars>>

\* ------------------------------------------------------------ reconcile

\* reconcile's loop over the sub-reconcilers: the result and error after a
\* stage returned (stageRes, stageErr), and where the pass goes from there.
FoldResult(res, stageRes, stageErr) ==
    IF stageRes = ResultRequeue THEN ResultRequeue
    ELSE IF stageErr # "" THEN stageRes
    ELSE LowestRequeuingResult(res, stageRes)
FoldError(stageRes, stageErr) == IF stageRes = ResultRequeue THEN "" ELSE stageErr
\* A loop that goes on to the next stage after a stage error.
AfterStageContinues(stageRes, stageErr, next) ==
    IF stageRes = ResultRequeue THEN Deferred ELSE next

\* A loop that treats Requeue as any other result.
AfterStageNoAbort(stageRes, stageErr, next) ==
    IF stageErr # "" THEN "notify" ELSE next

AfterStage(stageRes, stageErr, next) ==
    IF stageRes = ResultRequeue THEN Deferred
    ELSE IF stageErr # "" THEN "notify"
    ELSE next

\* A switch that looks at the generation only.
NeedsProgressPatchGenerationOnly(o) == o.generation # o.status.observedGeneration

\* reconcile, lines 246-267: whether Reconciling is persisted at once.
NeedsProgressPatch(o) ==
    \/ o.generation # o.status.observedGeneration
    \/ o.reconcileAt # o.status.lastHandledReconcileAt

\* Reconcile, lines 231-237, and reconcile, lines 246-270.
ReconcileStart(w) ==
    /\ pc[w] = "dispatch"
    /\ Branch(obj[w]) = "reconcile"
    /\ oldObj' = [oldObj EXCEPT ![w] = obj[w]]
    /\ LET o == ProgressiveStatus(obj[w])
       IN /\ obj' = [obj EXCEPT ![w] = o]
          /\ IF NeedsProgressPatch(o)
             THEN \E ok \in BOOLEAN :
                     /\ Patch(w, o, ok)
                     /\ Faulty(Failed(ok))
                     /\ retErr' = [retErr EXCEPT ![w] = IF PatchOK(ok) THEN "" ELSE "patch"]
                     /\ pc' = [pc EXCEPT ![w] = IF PatchOK(ok) THEN "storage" ELSE Deferred]
                     /\ Log(w, <<"pipeline", "progressPatch">>)
             ELSE /\ UNCHANGED <<api, patched, retErr, faults>>
                  /\ pc' = [pc EXCEPT ![w] = "storage"]
                  /\ Log(w, <<"pipeline">>)
    /\ UNCHANGED <<loaded, before, artifact, chartRepo, recResult, tmp, storeVars, remote, useCache, predVars, envSteps>>

\* Storage.ArtifactExist
ArtifactExist(f, a) == a.path \in Paths /\ f[a.path] # "absent"

\* Storage.SetHostname on the published URL.
SetHostname(u) == IF u = "" THEN "" ELSE "current"

\* An existence check that drops the artifact and leaves the URL published.
StorageCheckedKeepsURL(o, f) ==
    IF o.status.artifact # <<>> /\ ~ArtifactExist(f, o.status.artifact[1])
    THEN DeleteCondition([o EXCEPT !.status.artifact = <<>>], ArtifactInStorageCondition)
    ELSE o

\* reconcileStorage, lines 354-362: the object after the existence check
\* against the files f.
StorageChecked(o, f) ==
    IF o.status.artifact # <<>> /\ ~ArtifactExist(f, o.status.artifact[1])
    THEN DeleteCondition([o EXCEPT !.status.artifact = <<>>, !.status.url = ""], ArtifactInStorageCondition)
    ELSE o

\* What the existence check of line 356 found, for the record of the pass.
StorageFound(o, f) ==
    IF o.status.artifact = <<>> THEN <<>>
    ELSE IF ArtifactExist(f, o.status.artifact[1]) THEN <<"exists">> ELSE <<"missing">>

\* reconcileStorage, lines 364-383: the object as the stage leaves it.
StorageResult(o) ==
    IF o.status.artifact = <<>>
    THEN DeleteCondition(ProgressiveStatus(o), ArtifactInStorageCondition)
    ELSE [o EXCEPT !.status.url = SetHostname(@)]

\* A stage that returns the error of its garbage collection.
StorageGCErrReturned(e) == e

\* reconcileStorage, line 352: the error garbageCollect returned is discarded.
StorageGCErr(e) == ""

\* reconcileStorage: the whole stage, with the garbage collection it starts with.
ReconcileStorage(w) ==
    /\ pc[w] = "storage"
    /\ \E gcOk \in BOOLEAN : \E del \in GCRemovable(obj[w], gcOk) :
          LET f == GCFiles(del)
              o == StorageResult(StorageChecked(GCObj(obj[w], gcOk), f))
              g == StorageGCErr(GCErr(obj[w], gcOk))
              gc == <<"storage", "gc">> \o (IF GCErr(obj[w], gcOk) # "" THEN <<"gcFailed">> ELSE <<>>)
          IN /\ files' = f
             /\ alias' = GCAlias(obj[w], gcOk)
             /\ obj' = [obj EXCEPT ![w] = o]
             /\ gcOk \/ GCCalls(obj[w])
             /\ IF o.status.artifact = <<>>
                THEN \E ok \in BOOLEAN :
                        LET e == IF g # "" THEN g ELSE IF PatchOK(ok) THEN "" ELSE "patch"
                            r == IF e = "" THEN ResultSuccess ELSE ResultEmpty
                        IN /\ Patch(w, o, ok)
                           /\ Faulty(Failed(gcOk) + Failed(ok))
                           /\ recResult' = [recResult EXCEPT ![w] = FoldResult(@, r, e)]
                           /\ retErr' = [retErr EXCEPT ![w] = FoldError(r, e)]
                           /\ pc' = [pc EXCEPT ![w] = AfterStage(r, e, "source")]
                           /\ Log(w, gc \o StorageFound(GCObj(obj[w], gcOk), f) \o <<"patch">>)
                ELSE LET r == IF g = "" THEN ResultSuccess ELSE ResultEmpty
                     IN /\ UNCHANGED <<api, patched>>
                        /\ Faulty(Failed(gcOk))
                        /\ recResult' = [recResult EXCEPT ![w] = FoldResult(@, r, g)]
                        /\ retErr' = [retErr EXCEPT ![w] = FoldError(r, g)]
                        /\ pc' = [pc EXCEPT ![w] = AfterStage(r, g, "source")]
                        /\ Log(w, gc \o StorageFound(GCObj(obj[w], gcOk), f))
    /\ UNCHANGED <<loaded, before, oldObj, artifact, chartRepo, tmp, locks, cache, remote, useCache, predVars, envSteps>>

\* reconcileSource, lines 480-486: the digest of the current artifact the
\* fetched index is compared with.
CurrentDigest(a) ==
    IF a.digest # EmptyDigest THEN a.digest
    ELSE IF a.checksum = 0 THEN EmptyDigest
    ELSE TransformLegacyRevision(MkDigest("legacy", a.checksum))

\* A short-circuit that does not compare the digests.
ShortCircuitNoCompare(o, c) ==
    /\ o.status.artifact # <<>>
    /\ DigestValid(CurrentDigest(o.status.artifact[1]))

\* A short-circuit that digests the fetched index with the canonical
\* algorithm instead of the stored digest's.
ShortCircuitCanonical(o, c) ==
    /\ o.status.artifact # <<>>
    /\ LET curDig == CurrentDigest(o.status.artifact[1])
       IN /\ DigestValid(curDig)
          /\ ChartRepoDigest(c, Canonical) = curDig

\* reconcileSource, lines 486-494: the fetched index c matches the stored artifact.
ShortCircuit(o, c) ==
    /\ o.status.artifact # <<>>
    /\ LET curDig == CurrentDigest(o.status.artifact[1])
       IN /\ DigestValid(curDig)
          /\ DigestValid(ChartRepoDigest(c, curDig.alg))
          /\ ChartRepoDigest(c, curDig.alg) = curDig

\* reconcileSource, lines 509-514.
IndexChanged(o, c) ==
    /\ o.status.artifact # <<>>
    /\ LET curRev == TransformLegacyRevision(o.status.artifact[1].revision)
       IN ~DigestValid(curRev) \/ curRev # ChartRepoDigest(c, curRev.alg)

\* The ways reconcileSource ends: the step that failed, or "ok".
SourceOutcomes == {"secret", "client", "fetch", "load", "ok"}
FailsBeforeFetch(out) == out \in {"secret", "client", "fetch"}

\* reconcileSource, lines 527-538: the progress patch is attempted.
SourcePatches(o, c) == o.status.artifact = <<>> \/ IndexChanged(o, c)

\* reconcileSource: the object as the stage leaves it, having fetched c.
SourceObj(o, c, out) ==
    IF FailsBeforeFetch(out) THEN MarkTrue(o, FetchFailedCondition)
    ELSE IF ShortCircuit(o, c) THEN DeleteCondition(o, FetchFailedCondition)
    ELSE IF out = "load" THEN MarkTrue(o, FetchFailedCondition)
    ELSE LET o1 == DeleteCondition(o, FetchFailedCondition)
             o2 == IF o1.status.artifact # <<>> THEN MarkTrue(o1, ArtifactOutdatedCondition) ELSE o1
         IN IF SourcePatches(o, c) THEN ProgressiveStatus(o2) ELSE o1

\* reconcileSource: the error the stage returns.
SourceErr(o, c, out, ok) ==
    IF FailsBeforeFetch(out) THEN out
    ELSE IF ShortCircuit(o, c) THEN ""
    ELSE IF out = "load" THEN out
    ELSE IF SourcePatches(o, c) /\ ~ok THEN "patch"
    ELSE ""

\* A stage that builds a new candidate also when the fetched index matches.
SourceArtifactAlwaysNew(o, c, out, ok, a) ==
    IF SourceErr(o, c, out, ok) # "" THEN a
    ELSE NewArtifactFor(ChartRepoDigest(c, Canonical))

\* reconcileSource: the candidate artifact the stage leaves in the slot.
SourceArtifact(o, c, out, ok, a) ==
    IF SourceErr(o, c, out, ok) # "" THEN a
    ELSE IF ShortCircuit(o, c) THEN o.status.artifact[1]
    ELSE NewArtifactFor(ChartRepoDigest(c, Canonical))

\* reconcileSource: the chart repository the stage leaves in the slot.
SourceChartRepo(o, c, out, r) ==
    IF FailsBeforeFetch(out) THEN r
    ELSE [path |-> c, index |-> ~ShortCircuit(o, c) /\ out # "load"]

\* reconcileSource: the whole stage.
ReconcileSource(w) ==
    /\ pc[w] = "source"
    /\ \E out \in SourceOutcomes : \E ok \in BOOLEAN :
          LET o == obj[w]
              c == remote
              patches == ~FailsBeforeFetch(out) /\ ~ShortCircuit(o, c) /\ out # "load" /\ SourcePatches(o, c)
              pok == PatchOK(ok)
              e == SourceErr(o, c, out, pok)
              r == IF e = "" THEN ResultSuccess ELSE ResultEmpty
          IN /\ obj' = [obj EXCEPT ![w] = SourceObj(o, c, out)]
             /\ IF patches THEN Patch(w, SourceObj(o, c, out), pok) ELSE ok /\ UNCHANGED <<api, patched>>
             /\ Faulty(Failed(out = "ok") + Failed(ok))
             /\ artifact' = [artifact EXCEPT ![w] = SourceArtifact(o, c, out, pok, @)]
             /\ chartRepo' = [chartRepo EXCEPT ![w] = SourceChartRepo(o, c, out, @)]
             /\ recResult' = [recResult EXCEPT ![w] = FoldResult(@, r, e)]
             /\ retErr' = [retErr EXCEPT ![w] = FoldError(r, e)]
             /\ pc' = [pc EXCEPT ![w] = AfterStage(r, e, "artifact")]
             /\ Log(w, <<"source">> \o (IF FailsBeforeFetch(out) THEN <<>> ELSE <<"fetch">>)
                        \o (IF patches /\ o.status.artifact # <<>> THEN <<"outdated">> ELSE <<>>)
                        \o (IF patches THEN <<"patch">> ELSE <<>>))
    /\ UNCHANGED <<loaded, before, oldObj, tmp, storeVars, remote, useCache, predVars, envSteps>>

\* A stage that never finds the artifact up to date.
UpToDateNever(o, a) == FALSE

\* reconcileArtifact, line 572: the candidate is what the object already holds.
UpToDate(o, a) == HasRevision(o.status.artifact, a.revision) /\ HasChecksum(o.status.artifact, a.checksum)

\* The ways the start of reconcileArtifact's write path ends.
ArtifactOutcomes == {"mkdir", "lock", "ok"}

\* reconcileArtifact, lines 572-600: the up-to-date test, MkdirAll and Lock.
\* Lock blocks while another pass holds the lock of the same path.
ArtifactBegin(w) ==
    /\ pc[w] = "artifact"
    /\ IF UpToDate(obj[w], artifact[w])
       THEN /\ recResult' = [recResult EXCEPT ![w] = ResultSuccess]
            /\ pc' = [pc EXCEPT ![w] = "exit"]
            /\ Log(w, <<"artifact">> \o (IF useCache THEN <<"cacheExtend">> ELSE <<>>))
            /\ UNCHANGED <<obj, retErr, locks, faults>>
       ELSE \E out \in ArtifactOutcomes :
               /\ out = "ok" => locks[artifact[w].path] = 0
               /\ Faulty(Failed(out = "ok"))
               /\ locks' = IF out = "ok" THEN [locks EXCEPT ![artifact[w].path] = w] ELSE locks
               /\ obj' = [obj EXCEPT ![w] = IF out = "mkdir" THEN MarkTrue(@, StorageOperationFailedCondition) ELSE @]
               /\ retErr' = [retErr EXCEPT ![w] = IF out = "ok" THEN "" ELSE out]
               /\ recResult' = [recResult EXCEPT ![w] = IF out = "ok" THEN @ ELSE ResultEmpty]
               /\ pc' = [pc EXCEPT ![w] = IF out = "ok" THEN "copy" ELSE "exit"]
               /\ Log(w, <<"artifact", "mkdir">> \o (IF out = "mkdir" THEN <<>> ELSE <<"lock">>))
    /\ UNCHANGED <<api, loaded, before, patched, oldObj, artifact, chartRepo, tmp, files, alias, cache, remote, useCache, predVars, envSteps>>

\* Storage.CopyFromPath, first half: the content is written to a temporary
\* file beside the artifact's path.
CopyWrite(w) ==
    /\ pc[w] = "copy"
    /\ tmp' = [tmp EXCEPT ![w] = TRUE]
    /\ pc' = [pc EXCEPT ![w] = "rename"]
    /\ Log(w, <<"copy">>)
    /\ UNCHANGED <<api, obj, loaded, before, patched, oldObj, artifact, chartRepo, recResult, retErr, storeVars, envVars>>

\* Storage.CopyFromPath on success: the artifact's checksum and digest are
\* those of the content written.
Copied(a, c) == [a EXCEPT !.checksum = c, !.digest = MkDigest(Canonical, c)]

\* A copy whose artifact is recorded on the object before its error is looked at.
CopyObjRecordsFirst(o, a, ok) == [(IF ok THEN o ELSE MarkTrue(o, StorageOperationFailedCondition)) EXCEPT !.status.artifact = <<a>>]

\* reconcileArtifact, lines 603-610: the object after CopyFromPath returned.
CopyObj(o, a, ok) == IF ok THEN o ELSE MarkTrue(o, StorageOperationFailedCondition)

\* A stage that goes on to record and link the artifact whatever the copy returned.
AfterCopyIgnoresError(ok) == "publish"

\* reconcileArtifact, lines 603-610: the stage returns on a copy error.
AfterCopy(ok) == IF ok THEN "publish" ELSE "exit"

\* The store's file at path p once a copy of a complete temporary file ended.
Renamed(f, p, ok) == IF ok THEN [f EXCEPT ![p] = "complete"] ELSE f

\* Storage.CopyFromPath, second half, and reconcileArtifact, lines 603-610:
\* the temporary file is renamed onto the path, or the copy fails (an I/O
\* error, the context cancelled) and the temporary file is dropped.
CopyRename(w) ==
    /\ pc[w] = "rename"
    /\ \E ok \in BOOLEAN :
          /\ Faulty(Failed(ok))
          /\ files' = Renamed(files, artifact[w].path, ok)
          /\ artifact' = [artifact EXCEPT ![w] = IF ok THEN Copied(@, chartRepo[w].path) ELSE @]
          /\ obj' = [obj EXCEPT ![w] = CopyObj(@, artifact[w], ok)]
          /\ retErr' = [retErr EXCEPT ![w] = IF ok THEN "" ELSE "copy"]
          /\ recResult' = [recResult EXCEPT ![w] = IF ok THEN @ ELSE ResultEmpty]
          /\ pc' = [pc EXCEPT ![w] = AfterCopy(ok)]
          /\ Log(w, IF ok THEN <<"copied">> ELSE <<>>)
    /\ tmp' = [tmp EXCEPT ![w] = FALSE]
    /\ UNCHANGED <<api, loaded, before, patched, oldObj, chartRepo, alias, locks, cache, remote, useCache, predVars, envSteps>>

\* A stage that publishes the alias's URL whatever Symlink returned.
PublishedAlways(o, a, symOk) ==
    DeleteCondition([o EXCEPT !.status.artifact = <<a>>, !.status.url = "current"], StorageOperationFailedCondition)

\* reconcileArtifact, lines 612-636: the object after the artifact is recorded.
Published(o, a, symOk) ==
    LET o1 == [o EXCEPT !.status.artifact = <<a>>]
        o2 == IF symOk THEN [o1 EXCEPT !.status.url = "current"] ELSE o1
    IN DeleteCondition(o2, StorageOperationFailedCondition)

\* reconcileArtifact, lines 612-636: record, cache, symlink.
ArtifactPublish(w) ==
    /\ pc[w] = "publish"
    /\ \E symOk \in BOOLEAN :
          /\ obj' = [obj EXCEPT ![w] = Published(@, artifact[w], symOk)]
          /\ alias' = IF symOk THEN artifact[w].path ELSE alias
          /\ Faulty(Failed(symOk))
    /\ cache' = IF useCache /\ chartRepo[w].index THEN cache \cup {artifact[w].path} ELSE cache
    /\ recResult' = [recResult EXCEPT ![w] = ResultSuccess]
    /\ pc' = [pc EXCEPT ![w] = "exit"]
    /\ Log(w, <<"record">> \o (IF useCache /\ chartRepo[w].index THEN <<"cacheSet">> ELSE <<>>) \o <<"symlink">>)
    /\ UNCHANGED <<api, loaded, before, patched, oldObj, artifact, chartRepo, retErr, tmp, files, locks, remote, useCache, predVars, envSteps>>

\* A deferred function that leaves ArtifactOutdated in place.
ArtifactDeferredKeepsOutdated(o, a) ==
    IF HasRevision(o.status.artifact, a.revision)
    THEN MarkTrue(o, ArtifactInStorageCondition)
    ELSE o

\* A deferred function that updates the conditions whatever the object holds.
ArtifactDeferredAlways(o, a) ==
    MarkTrue(DeleteCondition(o, ArtifactOutdatedCondition), ArtifactInStorageCondition)

\* reconcileArtifact, lines 561-566: the deferred condition update.
ArtifactDeferred(o, a) ==
    IF HasRevision(o.status.artifact, a.revision)
    THEN MarkTrue(DeleteCondition(o, ArtifactOutdatedCondition), ArtifactInStorageCondition)
    ELSE o

\* A return that leaves the lock with the pass.
UnlockedNever(l, w) == l

\* reconcileArtifact, line 600: the deferred unlock, run when the stage
\* returns after it acquired the lock.
Unlocked(l, w) == [p \in Paths |-> IF l[p] = w THEN 0 ELSE l[p]]

\* reconcileArtifact's return: unlock (line 600), then the deferred function
\* of lines 561-570; and reconcile's loop taking the stage's result.
ArtifactExit(w) ==
    /\ pc[w] = "exit"
    /\ locks' = Unlocked(locks, w)
    /\ obj' = [obj EXCEPT ![w] = ArtifactDeferred(@, artifact[w])]
    /\ chartRepo' = [chartRepo EXCEPT ![w] = ZeroChartRepo]
    /\ LET r == recResult[w]
           e == retErr[w]
       IN /\ recResult' = [recResult EXCEPT ![w] = FoldResult(ResultSuccess, r, e)]
          /\ retErr' = [retErr EXCEPT ![w] = FoldError(r, e)]
          /\ pc' = [pc EXCEPT ![w] = AfterStage(r, e, "notify")]
    /\ Log(w, (IF \E p \in Paths : locks[p] = w THEN <<"unlock">> ELSE <<>>) \o <<"clear">>)
    /\ UNCHANGED <<api, loaded, before, patched, oldObj, artifact, tmp, files, alias, cache, envVars>>

\* sreconcile.FailureRecovery
FailureRecovery(old, new) ==
    /\ old.status.conditions \cap helmRepositoryFailConditions # {}
    /\ new.status.conditions \cap helmRepositoryFailConditions = {}

\* A notify that does not look at the outcome of the pipeline.
NotificationOnAnyResult(old, new, res, err) ==
    IF new.status.artifact # <<>>
    THEN LET oldChecksum == IF old.status.artifact # <<>> THEN old.status.artifact[1].checksum ELSE 0
         IN IF oldChecksum # new.status.artifact[1].checksum THEN <<"NewArtifact">>
            ELSE IF FailureRecovery(old, new) THEN <<"Succeeded">>
            ELSE <<>>
    ELSE <<>>

\* notify: the event emitted, if any.
Notification(old, new, res, err) ==
    IF err = "" /\ res = ResultSuccess /\ new.status.artifact # <<>>
    THEN LET oldChecksum == IF old.status.artifact # <<>> THEN old.status.artifact[1].checksum ELSE 0
         IN IF oldChecksum # new.status.artifact[1].checksum THEN <<"NewArtifact">>
            ELSE IF FailureRecovery(old, new) THEN <<"Succeeded">>
            ELSE <<>>
    ELSE <<>>

\* reconcile, lines 292-294, and notify.
Notify(w) ==
    /\ pc[w] = "notify"
    /\ pc' = [pc EXCEPT ![w] = Deferred]
    /\ Log(w, Notification(oldObj[w], obj[w], recResult[w], retErr[w]))
    /\ UNCHANGED <<api, obj, loaded, before, patched, oldObj, artifact, chartRepo, recResult, retErr, tmp, storeVars, envVars>>

\* summarize.SummarizeAndPatch's changes to the object before its patch:
\* ComputeReconcileResult and the RecordReconcileReq processor.
Summarized(o, res, err) ==
    LET o1 == IF o.reconcileAt # 0 THEN [o EXCEPT !.status.lastHandledReconcileAt = o.reconcileAt] ELSE o
        o2 == IF err = "" /\ res = ResultSuccess THEN DeleteCondition(o1, ReconcilingCondition) ELSE o1
    IN IF err = "" /\ res # ResultRequeue THEN [o2 EXCEPT !.status.observedGeneration = o.generation] ELSE o2

\* The error SummarizeAndPatch returns: the reconcile error, or the patch's,
\* a not-found being ignored for an object under deletion.
SummarizeErr(o, err, ok) ==
    IF err # "" THEN err
    ELSE IF ok THEN ""
    ELSE IF api.exists \/ ~o.deleted THEN "patch" ELSE ""

\* Reconcile, lines 186-207: the deferred SummarizeAndPatch, run on every
\* return after the object was loaded.
SummarizeAndPatch(w) ==
    /\ pc[w] = "summarize"
    /\ \E ok \in BOOLEAN :
          LET o == Summarized(obj[w], recResult[w], retErr[w])
          IN /\ Patch(w, o, ok)
             /\ Faulty(Failed(ok))
             /\ obj' = [obj EXCEPT ![w] = o]
             /\ retErr' = [retErr EXCEPT ![w] = SummarizeErr(o, retErr[w], PatchOK(ok))]
    /\ pc' = [pc EXCEPT ![w] = "done"]
    /\ Log(w, <<"finalPatch">>)
    /\ UNCHANGED <<loaded, before, oldObj, artifact, chartRepo, recResult, tmp, storeVars, remote, useCache, predVars, envSteps>>

\* sreconcile.AlwaysRequeueResultBuilder.BuildRuntimeResult: the ctrl.Result
\* of a pass, "after" standing for RequeueAfter set to the jittered interval.
BuildRuntimeResult(res) ==
    IF res = ResultRequeue THEN "requeue"
    ELSE IF res = ResultSuccess THEN "after"
    ELSE "none"

\* The controller's work queue after Reconcile returned (result, err): the
\* object is queued again on an error, on Requeue and on RequeueAfter.
Requeued(result, err) == err # "" \/ result # "none"

\* Reconcile has returned to the controller: the locals of the pass are gone.
Return(w) ==
    /\ pc[w] = "done"
    /\ pc' = [pc EXCEPT ![w] = "idle"]
    /\ obj' = [obj EXCEPT ![w] = FreshObject("")]
    /\ loaded' = [loaded EXCEPT ![w] = FreshObject("")]
    /\ before' = [before EXCEPT ![w] = <<>>]
    /\ patched' = [patched EXCEPT ![w] = FreshObject("")]
    /\ oldObj' = [oldObj EXCEPT ![w] = FreshObject("")]
    /\ artifact' = [artifact EXCEPT ![w] = ZeroArtifact]
    /\ chartRepo' = [chartRepo EXCEPT ![w] = ZeroChartRepo]
    /\ recResult' = [recResult EXCEPT ![w] = ResultEmpty]
    /\ retErr' = [retErr EXCEPT ![w] = ""]
    /\ ops' = [ops EXCEPT ![w] = <<>>]
    /\ UNCHANGED <<api, tmp, storeVars, envVars>>

\* ---------------------------------------------------------- environment
\* The environment's steps are taken between passes: a pass reads the
\* persisted spec once (r.Get), the remote index once (CacheIndex) and
\* patches only what it changed, so a step of the environment during a pass
\* leaves what a step right before or right after the pass leaves.

\* The user edits the spec: type and suspend; the generation is bumped.
EditSpec ==
    /\ EnvStep
    /\ api.exists
    /\ \E t \in RepositoryTypes : \E s \in BOOLEAN :
          /\ <<t, s>> # <<api.type, api.suspend>>
          /\ api' = [api EXCEPT !.type = t, !.suspend = s, !.generation = @ + 1]
    /\ UNCHANGED <<pc, obj, loaded, before, patched, oldObj, artifact, chartRepo, recResult, retErr, tmp, ops, storeVars, remote, useCache, predVars>>

\* The user annotates the object with a reconcile request.
RequestReconcile ==
    /\ EnvStep
    /\ api.exists
    /\ api.reconcileAt = 0
    /\ api' = [api EXCEPT !.reconcileAt = 1]
    /\ UNCHANGED <<pc, obj, loaded, before, patched, oldObj, artifact, chartRepo, recResult, retErr, tmp, ops, storeVars, remote, useCache, predVars>>

\* The user deletes the object: the deletion timestamp is set, and an object
\* without finalizer is removed at once.
DeleteObject ==
    /\ EnvStep
    /\ api.exists
    /\ ~api.deleted
    /\ api' = IF api.finalizer \/ api.foreign THEN [api EXCEPT !.deleted = TRUE] ELSE GoneObject
    /\ UNCHANGED <<pc, obj, loaded, before, patched, oldObj, artifact, chartRepo, recResult, retErr, tmp, ops, storeVars, remote, useCache, predVars>>

\* The remote index changes.
RemoteChange ==
    /\ EnvStep
    /\ \E c \in Contents \ {remote} : remote' = c
    /\ UNCHANGED <<api, useCache, predVars, pc, obj, loaded, before, patched, oldObj, artifact, chartRepo, recResult, retErr, tmp, ops, storeVars>>

\* A stored file disappears from the storage volume.
StoreLoss ==
    /\ EnvStep
    /\ \E p \in Paths :
          /\ files[p] = "complete"
          /\ files' = [files EXCEPT ![p] = "absent"]
    /\ UNCHANGED <<api, alias, locks, cache, pc, obj, loaded, before, patched, oldObj, artifact, chartRepo, recResult, retErr, tmp, ops, remote, useCache, predVars>>

Env == EditSpec \/ RequestReconcile \/ DeleteObject \/ RemoteChange \/ StoreLoss

Pass(w) ==
    \/ ReconcileBegin(w)
    \/ ReconcileNotFound(w)
    \/ AddFinalizer(w)
    \/ ReconcileDelete(w)
    \/ Suspended(w)
    \/ ReconcileStart(w)
    \/ ReconcileStorage(w)
    \/ ReconcileSource(w)
    \/ ArtifactBegin(w)
    \/ CopyWrite(w)
    \/ CopyRename(w)
    \/ ArtifactPublish(w)
    \/ ArtifactExit(w)
    \/ Notify(w)
    \/ SummarizeAndPatch(w)
    \/ Return(w)

\* One reconcile of the object in flight at a time, as the controller's
\* work queue guarantees.
Next == Pass(1) \/ Env
Spec == Init /\ [][Next]_vars

\* Two reconciles of the same object in flight at once: a retry that overlaps
\* the pass it retries.
\* The second starts while the first is in flight; the work queue does not
\* start it, so its start is a step of the environment.
Overlap ==
    /\ ~Idle(1)
    /\ envSteps < MaxEnvSteps
    /\ Load(2)
    /\ envSteps' = envSteps + 1
    /\ UNCHANGED <<remote, useCache, predVars, faults>>

Retry == Overlap \/ (~Idle(2) /\ Pass(2))
\* The work queue starts a pass when none is in flight.
First == (Idle(1) => Idle(2)) /\ Pass(1)
NextOverlap == First \/ Retry \/ Env
\* The overlap is followed from the objects of the supported type, with a
\* cache configured.
InitOverlap == Init /\ useCache /\ ~api.foreign /\ api.type = HelmRepositoryTypeDefault
SpecOverlap == InitOverlap /\ [][NextOverlap]_vars

\* The index cache takes no part in where a pass goes: the passes are
\* followed to their end for a controller started without it.
InitLive == Init /\ ~useCache

\* The controller under fair scheduling: a pass that has started runs to its
\* end, and the object is reconciled again and again, as the requeue of every
\* result and error of a pipeline pass (AlwaysRequeueResultBuilder) and the
\* events of its changes arrange.
SpecLive == InitLive /\ [][Next]_vars /\ WF_vars(Pass(1))

\* ------------------------------------------------------- event predicates

\* client.Object as an event carries it: nil, an object of another kind, or
\* a *sourcev1.HelmRepository.  The conditions of a repository read from the
\* API are nil when it has none.
NilObject == [kind |-> "nil"]
OtherObject == [kind |-> "other"]
Repository(hr) == [kind |-> "HelmRepository", hr |-> hr]

\* A filter that takes an empty type for the default one.
helmRepositoryTypeFilterDefaulting(repositoryType, o) ==
    IF o.kind # "HelmRepository" THEN FALSE
    ELSE (IF o.hr.type = "" THEN HelmRepositoryTypeDefault ELSE o.hr.type) = repositoryType

\* helmRepositoryTypeFilter
helmRepositoryTypeFilter(repositoryType, o) ==
    IF o.kind = "nil" THEN FALSE
    ELSE IF o.kind # "HelmRepository" THEN FALSE
    ELSE o.hr.type = repositoryType

\* HelmRepositoryTypePredicate: Create, Update, Delete, Generic.
TypePredicateCreate(h, e) == helmRepositoryTypeFilter(h.RepositoryType, e.Object)
\* An Update that also lets the old object's type through.
TypePredicateUpdateEither(h, e) ==
    \/ helmRepositoryTypeFilter(h.RepositoryType, e.ObjectNew)
    \/ helmRepositoryTypeFilter(h.RepositoryType, e.ObjectOld)
TypePredicateUpdate(h, e) ==
    IF e.ObjectNew.kind = "nil" THEN FALSE
    ELSE IF e.ObjectNew.kind # "HelmRepository" THEN FALSE
    ELSE e.ObjectNew.hr.type = h.RepositoryType
TypePredicateDelete(h, e) == helmRepositoryTypeFilter(h.RepositoryType, e.Object)
TypePredicateGeneric(h, e) == helmRepositoryTypeFilter(h.RepositoryType, e.Object)

\* A status test that does not look at the last handled reconcile request.
hasEmptyHelmRepositoryStatusNoToken(o) ==
    /\ o.status.observedGeneration = 0
    /\ o.status.conditions = {}
    /\ o.status.url = ""
    /\ o.status.artifact = <<>>

\* hasEmptyHelmRepositoryStatus
hasEmptyHelmRepositoryStatus(o) ==
    /\ o.status.observedGeneration = 0
    /\ o.status.conditions = {}
    /\ o.status.url = ""
    /\ o.status.artifact = <<>>
    /\ o.status.lastHandledReconcileAt = 0

\* HelmRepositoryOCIRequireMigration
HelmRepositoryOCIRequireMigration(o) ==
    IF o.kind = "nil" THEN FALSE
    ELSE IF o.kind # "HelmRepository" THEN FALSE
    ELSE IF o.hr.type # HelmRepositoryTypeOCI THEN FALSE
    ELSE o.hr.finalizer \/ ~hasEmptyHelmRepositoryStatus(o.hr)

\* HelmRepositoryOCIMigrationPredicate: Create, Update, Delete.
MigrationPredicateCreate(e) == HelmRepositoryOCIRequireMigration(e.Object)
MigrationPredicateUpdate(e) == HelmRepositoryOCIRequireMigration(e.ObjectNew)
MigrationPredicateDelete(e) == HelmRepositoryOCIRequireMigration(e.Object)

\* The objects, events and predicates the methods are applied to.
Statuses ==
    {[EmptyStatus EXCEPT !.observedGeneration = g] : g \in {-1, 0, 1}}
        \cup {[EmptyStatus EXCEPT !.conditions = {ArtifactInStorageCondition}],
              [EmptyStatus EXCEPT !.url = "current"],
              [EmptyStatus EXCEPT !.artifact = <<StoredArtifact(Canonical, 1)>>],
              [EmptyStatus EXCEPT !.lastHandledReconcileAt = 1],
              MigratedObject(1).status}
Repositories ==
    {[FreshObject(t) EXCEPT !.finalizer = f, !.status = st] :
        t \in RepositoryTypes, f \in BOOLEAN, st \in Statuses}
EventObjects == {NilObject, OtherObject} \cup {Repository(hr) : hr \in Repositories}
Events ==
    {[kind |-> k, Object |-> o] : k \in {"Create", "Delete", "Generic"}, o \in EventObjects}
        \cup {[kind |-> "Update", ObjectOld |-> o, ObjectNew |-> n] : o \in EventObjects, n \in EventObjects}
Predicates == {[RepositoryType |-> t] : t \in RepositoryTypes}

\* One method of a predicate is called with the event and answers.
Answer(kind, by, value) ==
    /\ event.kind = kind
    /\ verdict = NoVerdict
    /\ verdict' = [by |-> by, value |-> value]
    /\ UNCHANGED <<api, pc, obj, oldObj, artifact, chartRepo, recResult, retErr, tmp, patched, loaded, before, ops,
                   storeVars, remote, useCache, envSteps, faults, event, predicate>>

OnTypeCreate == Answer("Create", "TypePredicate.Create", TypePredicateCreate(predicate, event))
OnTypeUpdate == Answer("Update", "TypePredicate.Update", TypePredicateUpdate(predicate, event))
OnTypeDelete == Answer("Delete", "TypePredicate.Delete", TypePredicateDelete(predicate, event))
OnTypeGeneric == Answer("Generic", "TypePredicate.Generic", TypePredicateGeneric(predicate, event))
OnMigrationCreate == Answer("Create", "MigrationPredicate.Create", MigrationPredicateCreate(event))
OnMigrationUpdate == Answer("Update", "MigrationPredicate.Update", MigrationPredicateUpdate(event))
OnMigrationDelete == Answer("Delete", "MigrationPredicate.Delete", MigrationPredicateDelete(event))

NextPredicates ==
    \/ OnTypeCreate
    \/ OnTypeUpdate
    \/ OnTypeDelete
    \/ OnTypeGeneric
    \/ OnMigrationCreate
    \/ OnMigrationUpdate
    \/ OnMigrationDelete
InitPredicates ==
    /\ InitController /\ api = MigratedObject(1) /\ useCache
    /\ event \in Events
    /\ predicate \in Predicates
    /\ verdict = NoVerdict
SpecPredicates == InitPredicates /\ [][NextPredicates]_vars

\* ------------------------------------------- the loop over arbitrary stages

\* reconcile's loop (lines 275-290) takes any functions of the type
\* helmRepositoryReconcileFunc: a stage here returns any result with or
\* without an error, and leaves the object as it is, drops the failure
\* conditions, or records an artifact of some content.
StageResults == {ResultEmpty, ResultRequeue, ResultSuccess}
StageErrs == {"", "stage"}
StageEffects(o) ==
    {o, [o EXCEPT !.status.conditions = @ \ helmRepositoryFailConditions]}
        \cup {[o EXCEPT !.status.artifact = <<StoredArtifact(Canonical, c)>>] : c \in Contents}

AnyStage(w, name, next) ==
    /\ pc[w] = name
    /\ \E r \in StageResults : \E e \in StageErrs : \E o \in StageEffects(obj[w]) :
          /\ obj' = [obj EXCEPT ![w] = o]
          /\ recResult' = [recResult EXCEPT ![w] = FoldResult(@, r, e)]
          /\ retErr' = [retErr EXCEPT ![w] = FoldError(r, e)]
          /\ pc' = [pc EXCEPT ![w] = AfterStage(r, e, next)]
          /\ Log(w, <<name, r, e>>)
    /\ UNCHANGED <<api, loaded, before, patched, oldObj, artifact, chartRepo, tmp, storeVars, envVars>>

NextStages ==
    \/ ReconcileBegin(1)
    \/ ReconcileStart(1)
    \/ AnyStage(1, "storage", "source")
    \/ AnyStage(1, "source", "artifact")
    \/ AnyStage(1, "artifact", "notify")
    \/ Notify(1)
SpecStages == Init /\ [][NextStages]_vars

\* ---------------------------------------------------------------- claims

Done(w) == pc[w] = "done"
Did(w, op) == \E i \in DOMAIN ops[w] : ops[w][i] = op
Count(w, op) == Cardinality({i \in DOMAIN ops[w] : ops[w][i] = op})

\* The digest an artifact in status is stored under, and whether the index
\* content c has that digest under the same algorithm.
StoredDigest(a) == IF a.digest # EmptyDigest THEN a.digest ELSE MkDigest("sha256", a.checksum)
SameDigest(a, c) == DigestValid(StoredDigest(a)) /\ MkDigest(StoredDigest(a).alg, c) = StoredDigest(a)

\* C1: after a pass that fetched the remote index and ended with no error,
\* the revision of the artifact recorded in status is the canonical digest of
\* the fetched content, or is the revision recorded before the pass, the
\* stored content being the fetched one.
C1_RevisionIsFetchedDigest ==
    \A w \in Workers :
        (Done(w) /\ retErr[w] = "" /\ Did(w, "fetch")) =>
            /\ api.status.artifact # <<>>
            /\ \/ api.status.artifact[1].revision = MkDigest(Canonical, remote)
               \/ /\ loaded[w].status.artifact # <<>>
                  /\ loaded[w].status.artifact[1].checksum = remote
                  /\ api.status.artifact[1].revision = loaded[w].status.artifact[1].revision

\* A pass replaced the artifact of another content by the fetched one.
C1_Witness ==
    \E w \in Workers :
        /\ Done(w) /\ retErr[w] = "" /\ Did(w, "fetch") /\ Did(w, "copied")
        /\ loaded[w].status.artifact # <<>>
        /\ loaded[w].status.artifact[1].checksum # remote
        /\ api.status.artifact[1].revision = MkDigest(Canonical, remote)

\* What C2 promises of a pass: no copy into the store, no cache set, a TTL
\* extension exactly when a cache is configured, and the result Success.
NoWritePass(w) ==
    /\ ~Did(w, "copy") /\ ~Did(w, "copied") /\ ~Did(w, "record")
    /\ ~Did(w, "cacheSet")
    /\ Count(w, "cacheExtend") = (IF useCache THEN 1 ELSE 0)
    /\ recResult[w] = ResultSuccess

\* The pass fetched an index whose digest, under the algorithm of the digest
\* of the artifact status held at the start of the pass, is that digest.
FetchedStoredDigest(w) ==
    /\ Done(w) /\ Did(w, "fetch")
    /\ loaded[w].status.artifact # <<>>
    /\ SameDigest(loaded[w].status.artifact[1], remote)

\* C2 as stated: every pass that fetched the stored digest writes nothing.
C2_Original == \A w \in Workers : FetchedStoredDigest(w) => NoWritePass(w)

\* C2, amended: a pass that fetched the stored digest, and in which the store
\* still held the stored artifact at the existence check, copies nothing into
\* the store, sets no cache entry, extends the TTL exactly when a cache is
\* configured, and has the result Success.
C2_NoWriteWhenUnchanged ==
    \A w \in Workers : (FetchedStoredDigest(w) /\ ~Did(w, "missing")) => NoWritePass(w)

\* A pass with a cache fetched the stored digest of an artifact stored under
\* another algorithm than the canonical one, and extended the TTL.
C2_Witness ==
    \E w \in Workers :
        /\ FetchedStoredDigest(w) /\ ~Did(w, "missing")
        /\ loaded[w].status.artifact[1].digest.alg # Canonical
        /\ Did(w, "cacheExtend")

\* What a reader of the alias path finds.
AliasRead == IF alias = 0 THEN "none" ELSE files[alias]

StatusCore(o) == <<o.status.artifact, o.status.url, o.status.conditions>>
Cleared == <<<<>>, "", {}>>
Returned(w) == pc[w] \in {"summarize", "done"}

\* C3: when directory creation, lock acquisition or the copy (an I/O error or
\* a cancellation before it completed) fails, the artifact reference of status
\* is what it was when the artifact stage began: what the pass loaded, or none
\* when the storage stage found the artifact missing.
C3_ReferenceKeptOnFailedWrite ==
    \A w \in Workers :
        (Did(w, "artifact") /\ retErr[w] \in {"mkdir", "lock", "copy"}) =>
            /\ obj[w].status.artifact = (IF Did(w, "missing") THEN <<>> ELSE loaded[w].status.artifact)
            /\ ~Did(w, "record")
            /\ api.status.artifact \in {<<>>, loaded[w].status.artifact}

\* The copy of a new revision failed in a pass on an object that holds an artifact.
C3_Witness ==
    \E w \in Workers :
        /\ Done(w) /\ retErr[w] = "copy" /\ ~Did(w, "missing")
        /\ obj[w].status.artifact # <<>>
        /\ artifact[w].revision # obj[w].status.artifact[1].revision

\* C5: in a pass on an object under deletion that carries the finalizer, a
\* failed purge returns the error and leaves the finalizer and the status as
\* they were; a purge that succeeded removes the finalizer and clears the
\* artifact reference, the published URL and the conditions.
C5_DeletionPurge ==
    \A w \in Workers :
        (Returned(w) /\ loaded[w].finalizer /\ loaded[w].deleted) =>
            /\ Did(w, "purge")
            /\ IF Did(w, "purgeFailed")
               THEN /\ retErr[w] = "GarbageCollectionFailed"
                    /\ obj[w].finalizer /\ api.exists /\ api.finalizer
                    /\ StatusCore(obj[w]) = StatusCore(loaded[w])
                    /\ StatusCore(api) = StatusCore(loaded[w])
               ELSE /\ ~obj[w].finalizer
                    /\ StatusCore(obj[w]) = Cleared
                    /\ pc[w] = "summarize" => retErr[w] = ""

\* The purge of an object under deletion that holds an artifact failed.
C5_Witness ==
    \E w \in Workers :
        /\ Done(w) /\ loaded[w].finalizer /\ loaded[w].deleted
        /\ Did(w, "purgeFailed")
        /\ loaded[w].status.artifact # <<>>

\* The pass took the purge path for a type change, not for a deletion.
TypeChangePass(w) ==
    /\ Returned(w) /\ loaded[w].finalizer /\ ~loaded[w].deleted /\ TypeChanged(loaded[w])
    /\ loaded[w].status.artifact # <<>>

NoFileLeft == \A p \in Paths : files[p] = "absent"

FinalizerPass(w) == Returned(w) /\ ~Did(w, "notFound") /\ ~loaded[w].finalizer

\* C7: a pass on an object that lacks the finalizer adds it and returns
\* Requeue with no error, and nothing else: no stage, no purge, no store or
\* cache operation, whether or not the object is under deletion, suspended or
\* of an unsupported type.
C7_FinalizerFirst ==
    \A w \in Workers :
        FinalizerPass(w) =>
            /\ obj[w].finalizer
            /\ recResult[w] = ResultRequeue
            /\ pc[w] = "summarize" => retErr[w] = ""
            /\ ops[w] \in {<<"finalizer">>, <<"finalizer", "finalPatch">>}
            /\ <<files, alias, cache>> = before[w]
            /\ StatusCore(obj[w]) = StatusCore(loaded[w])

\* The finalizer was added to an object under deletion.
C7_Witness ==
    \E w \in Workers : Done(w) /\ FinalizerPass(w) /\ loaded[w].deleted /\ obj[w].finalizer

\* The operations of the purge path and of the deferred patch.
PurgeOps == {"delete", "purge", "purgeFailed", "finalPatch"}

\* C8: a pass on an object that carries the finalizer and is under deletion,
\* or whose type is neither empty nor the default, runs the purge path only:
\* no stage, no fetch, no copy, no cache operation; and it returns the purge
\* path's result and error.
C8_PurgePathOnly ==
    \A w \in Workers :
        (Returned(w) /\ loaded[w].finalizer /\ (loaded[w].deleted \/ TypeChanged(loaded[w]))) =>
            /\ Did(w, "purge")
            /\ \A i \in DOMAIN ops[w] : ops[w][i] \in PurgeOps
            /\ cache = before[w][3]
            /\ recResult[w] = ResultEmpty
            /\ pc[w] = "summarize" => retErr[w] = (IF Did(w, "purgeFailed") THEN "GarbageCollectionFailed" ELSE "")

\* A type change alone, on a suspended object, took the purge path.
C8_Witness ==
    \E w \in Workers :
        /\ Done(w) /\ loaded[w].finalizer /\ ~loaded[w].deleted /\ TypeChanged(loaded[w])
        /\ loaded[w].suspend
        /\ Did(w, "purge")

\* The pass loaded a suspended object that takes neither of the earlier branches.
SuspendedPass(w) ==
    /\ Returned(w) /\ loaded[w].finalizer /\ ~loaded[w].deleted /\ ~TypeChanged(loaded[w])
    /\ loaded[w].suspend

\* What a suspended pass leaves alone: no error, no stage, no store or cache
\* operation, the status fields and the finalizer as they were.
SuspendedFrame(w) ==
    /\ pc[w] = "summarize" => (retErr[w] = "" /\ obj[w] = loaded[w])
    /\ ops[w] \in {<<"suspended">>, <<"suspended", "finalPatch">>}
    /\ <<files, alias, cache>> = before[w]
    /\ StatusCore(obj[w]) = StatusCore(loaded[w])
    /\ StatusCore(api) = StatusCore(loaded[w])
    /\ obj[w].finalizer /\ api.finalizer

\* C9 as stated: the suspended pass returns Success.
C9_Original ==
    \A w \in Workers : SuspendedPass(w) => (recResult[w] = ResultSuccess /\ SuspendedFrame(w))

\* C9: a pass on a suspended object returns the empty result, which asks for
\* no requeue, with no error; it runs no stage, performs no store or cache
\* operation, and leaves the artifact reference, the published URL, the
\* conditions and the finalizer as they were.
C9_SuspendedNoMutation ==
    \A w \in Workers : SuspendedPass(w) => (recResult[w] = ResultEmpty /\ SuspendedFrame(w))

\* A suspended object that holds an artifact and whose new generation was
\* not yet observed went through a pass.
C9_Witness ==
    \E w \in Workers :
        /\ Done(w) /\ SuspendedPass(w)
        /\ loaded[w].status.artifact # <<>>
        /\ loaded[w].generation # loaded[w].status.observedGeneration

\* C10: a pass that loaded the object patches the summarized status exactly
\* once, as its last operation, whichever branch ended it; before the pass
\* returns there is no such patch.
C10_FinalPatchOnce ==
    \A w \in Workers :
        /\ (Done(w) /\ ~Did(w, "notFound")) =>
              (Count(w, "finalPatch") = 1 /\ ops[w][Len(ops[w])] = "finalPatch")
        /\ ~Done(w) => ~Did(w, "finalPatch")

\* A pass whose pipeline failed in the artifact stage ended with its one patch.
C10_Witness ==
    \E w \in Workers :
        /\ Done(w) /\ Did(w, "artifact") /\ recResult[w] = ResultEmpty
        /\ Count(w, "finalPatch") = 1

\* The pass of worker w has returned and left the object queued again.
Scheduled(w) == Requeued(BuildRuntimeResult(recResult[w]), retErr[w])

ChecksumOf(o) == IF o.status.artifact = <<>> THEN 0 ELSE o.status.artifact[1].checksum
FailuresOf(o) == o.status.conditions \cap helmRepositoryFailConditions

\* The pipeline of the pass of worker w has completed and reconcile returned.
PipelineReturned(w) == pc[w] = "summarize" /\ Did(w, "pipeline") /\ ~Did(w, "finalPatch")

\* The notifications the claim expects, from the object at the start of the
\* pass and at its end.
ExpectNewArtifact(w) ==
    /\ ChecksumOf(loaded[w]) # ChecksumOf(obj[w])
    /\ obj[w].status.artifact # <<>>
ExpectRecovery(w) ==
    /\ ChecksumOf(loaded[w]) = ChecksumOf(obj[w])
    /\ \E c \in helmRepositoryFailConditions :
          c \in loaded[w].status.conditions /\ c \notin obj[w].status.conditions

\* C12 as stated: the notifications follow from the checksums and the failure
\* conditions at the start and at the end of the pass alone.
C12_Original ==
    \A w \in Workers :
        PipelineReturned(w) =>
            /\ Did(w, "NewArtifact") <=> ExpectNewArtifact(w)
            /\ Did(w, "Succeeded") <=> ExpectRecovery(w)
            /\ Count(w, "NewArtifact") + Count(w, "Succeeded") <= 1

\* C12: a pass emits "new artifact" exactly when its pipeline returned
\* Success without error and the checksum of the artifact at its end differs
\* from the one at its start; it emits "recovery" exactly when its pipeline
\* returned Success without error, the object holds an artifact of unchanged
\* checksum, a failure condition was set at the start and none is set at the
\* end; it emits nothing otherwise and never more than one notification.
C12_NotifyOnChange ==
    \A w \in Workers :
        PipelineReturned(w) =>
            LET succeeded == retErr[w] = "" /\ recResult[w] = ResultSuccess /\ obj[w].status.artifact # <<>>
            IN /\ Did(w, "NewArtifact") <=> (succeeded /\ ExpectNewArtifact(w))
               /\ Did(w, "NewArtifact") => Did(w, "record")
               /\ Did(w, "Succeeded") <=>
                     /\ succeeded
                     /\ ChecksumOf(loaded[w]) = ChecksumOf(obj[w])
                     /\ FailuresOf(loaded[w]) # {}
                     /\ FailuresOf(obj[w]) = {}
               /\ Count(w, "NewArtifact") + Count(w, "Succeeded") <= 1

\* A pass recovered from a failed fetch: same artifact, "recovery" emitted.
C12_Witness ==
    \E w \in Workers :
        /\ PipelineReturned(w) /\ Did(w, "Succeeded")
        /\ FetchFailedCondition \in loaded[w].status.conditions
        /\ obj[w].status.artifact = loaded[w].status.artifact

\* A pipeline pass of worker w that started from an object holding an
\* artifact, fetched an index of other content and met no error, the final
\* patch included.
RemoteChangePass(w) ==
    /\ Done(w) /\ Did(w, "pipeline") /\ retErr[w] = ""
    /\ loaded[w].status.artifact # <<>>
    /\ loaded[w].status.artifact[1].checksum # remote

\* What the claim promises of such a pass.
RemoteChangeOutcome(w) ==
    /\ Did(w, "outdated")
    /\ ArtifactOutdatedCondition \notin obj[w].status.conditions
    /\ ArtifactOutdatedCondition \notin api.status.conditions
    /\ Count(w, "copied") = 1
    /\ api.status.artifact # <<>>
    /\ api.status.artifact[1].revision = MkDigest(Canonical, remote)
    /\ Did(w, "NewArtifact")

\* When the source stage logs "outdated" it leaves ArtifactOutdated set on the
\* object, and the condition stays set until the artifact stage returns.
OutdatedWhileBuilding(w) ==
    pc[w] \in {"artifact", "copy", "rename", "publish", "exit"} =>
        (Did(w, "outdated") => ArtifactOutdatedCondition \in obj[w].status.conditions)

\* C13 as stated: every such pass of an object whose status holds an artifact.
C13_Original ==
    \A w \in Workers : RemoteChangePass(w) => RemoteChangeOutcome(w)

\* C13: for an object holding an artifact with revision d1 whose file is in
\* storage, a pipeline pass that fetches an index of other content with digest
\* d2 and meets no error sets ArtifactOutdated and later clears it, performs
\* exactly one storage write, ends with status artifact revision d2 and emits
\* a "new artifact" notification.
C13_RemoteChange ==
    \A w \in Workers :
        /\ OutdatedWhileBuilding(w)
        /\ (RemoteChangePass(w) /\ Did(w, "exists")) => RemoteChangeOutcome(w)

C13_Witness ==
    \E w \in Workers :
        /\ RemoteChangePass(w) /\ Did(w, "exists") /\ RemoteChangeOutcome(w)
        /\ api.status.artifact[1].revision # loaded[w].status.artifact[1].revision
        /\ files[remote] = "complete"

\* The object's generation or its reconcile request has not been handled yet.
Stale(o) ==
    \/ o.generation # o.status.observedGeneration
    \/ o.reconcileAt # o.status.lastHandledReconcileAt

StageOps == {"storage", "source", "artifact"}
In(seq, op) == \E i \in DOMAIN seq : seq[i] = op

\* The step in which worker w enters reconcile: the object is marked
\* progressing; the progress patch is issued exactly for a stale object; a
\* failed patch ends the pass with the patch error, an accepted one persists
\* the mark and leads to the first stage.
ProgressStep(w) ==
    (pc[w] = "dispatch" /\ In(ops'[w], "pipeline")) =>
        LET failed == faults' # faults \/ ~api.exists
        IN /\ ReconcilingCondition \in obj'[w].status.conditions
           /\ ops'[w] = IF Stale(obj[w]) THEN <<"pipeline", "progressPatch">> ELSE <<"pipeline">>
           /\ (Stale(obj[w]) /\ failed) =>
                 /\ pc'[w] = "summarize" /\ retErr'[w] = "patch" /\ recResult'[w] = ResultEmpty
                 /\ api' = api
           /\ (Stale(obj[w]) /\ ~failed) =>
                 /\ pc'[w] = "storage" /\ retErr'[w] = ""
                 /\ ReconcilingCondition \in api'.status.conditions
           /\ ~Stale(obj[w]) => (pc'[w] = "storage" /\ api' = api /\ faults' = faults)

\* Every stage in a log comes after the start of the pipeline and after the
\* progress patch; a pass that returned after the patch without a stage
\* returned the patch error.
StagesFollowPatch(w, seq, o, at, err) ==
    /\ \A i \in DOMAIN seq :
          seq[i] \in StageOps =>
              /\ i > 1 /\ seq[1] = "pipeline"
              /\ Stale(o) => (i > 2 /\ seq[2] = "progressPatch")
    /\ (at = "summarize" /\ In(seq, "progressPatch") /\ ~In(seq, "storage")) => err = "patch"

\* C20: on entering the pipeline the object is marked progressing, and a
\* status patch of its own is issued if and only if the generation differs
\* from the observed generation or the reconcile request differs from the
\* last handled one; the patch precedes every stage; if it fails no stage
\* runs and the pass returns the patch error.
C20_ProgressPatchFirst ==
    [][\A w \in Workers :
          /\ ProgressStep(w)
          /\ StagesFollowPatch(w, ops'[w], loaded'[w], pc'[w], retErr'[w])]_vars

\* The progress patch of a stale object was refused: the pass returns it.
C20_Witness ==
    \E w \in Workers :
        /\ pc[w] = "summarize" /\ ops[w] = <<"pipeline", "progressPatch">>
        /\ api.exists /\ Stale(loaded[w]) /\ retErr[w] = "patch"

\* The position of an operation in a log (0: absent), and the last stage in it.
Pos(seq, op) == IF In(seq, op) THEN CHOOSE i \in DOMAIN seq : seq[i] = op ELSE 0
Occurs(seq, op) == Cardinality({i \in DOMAIN seq : seq[i] = op})
LastStage(seq) ==
    IF In(seq, "artifact") THEN "artifact"
    ELSE IF In(seq, "source") THEN "source"
    ELSE IF In(seq, "storage") THEN "storage"
    ELSE "none"

\* The errors each stage returns.
StageErrors(stage) ==
    CASE stage = "storage" -> {"patch"}
      [] stage = "source" -> {"secret", "client", "fetch", "load", "patch"}
      [] stage = "artifact" -> {"mkdir", "lock", "copy"}
      [] OTHER -> {}

\* Each stage at most once, in the order storage, source, artifact, none
\* without its predecessor.
StageOrder(seq) ==
    /\ \A st \in StageOps : Occurs(seq, st) <= 1
    /\ In(seq, "source") => (In(seq, "storage") /\ Pos(seq, "storage") < Pos(seq, "source"))
    /\ In(seq, "artifact") => (In(seq, "source") /\ Pos(seq, "source") < Pos(seq, "artifact"))

\* C18: within a pass the stages run in the order storage, source, artifact,
\* each at most once; a stage is entered only when no earlier stage returned
\* an error; a stage error ends the loop with the empty result and that
\* error, which the pass returns unchanged, and no later stage runs.
C18_StagesInOrder ==
    [][\A w \in Workers :
          /\ StageOrder(ops'[w])
          /\ pc'[w] \in {"storage", "source", "artifact"} => retErr'[w] = ""
          /\ pc'[w] = "source" => LastStage(ops'[w]) = "storage"
          /\ pc'[w] = "artifact" => LastStage(ops'[w]) = "source"
          /\ (pc[w] \in {"storage", "source", "exit"} /\ pc'[w] # pc[w] /\ retErr'[w] # "") =>
                /\ pc'[w] = "notify"
                /\ retErr'[w] \in StageErrors(LastStage(ops'[w]))
                /\ recResult'[w] = ResultEmpty
          /\ (pc[w] = "notify" /\ pc'[w] # pc[w]) =>
                /\ pc'[w] = "summarize"
                /\ retErr'[w] = retErr[w] /\ recResult'[w] = recResult[w]
                /\ \A st \in StageOps : In(ops'[w], st) <=> In(ops[w], st)]_vars

\* The source stage failed to fetch: the pass returns that error and the
\* artifact stage never ran.
C18_Witness ==
    \E w \in Workers :
        /\ pc[w] = "summarize" /\ retErr[w] = "fetch" /\ recResult[w] = ResultEmpty
        /\ LastStage(ops[w]) = "source" /\ ~Did(w, "artifact")

\* The results and errors the stages of a pass returned, in order, read off
\* the log of the loop over arbitrary stages.
StageAt(seq) == {i \in DOMAIN seq : seq[i] \in StageOps}
Returns(seq) == {<<seq[i + 1], seq[i + 2]>> : i \in StageAt(seq)}
LastReturn(seq) ==
    LET i == CHOOSE j \in StageAt(seq) : \A k \in StageAt(seq) : k <= j
    IN <<seq[i + 1], seq[i + 2]>>
Notified(seq) == In(seq, "NewArtifact") \/ In(seq, "Succeeded")

\* C19: a stage returning Requeue ends the pass at once: the loop returns
\* Requeue with no error, whatever error came with it, no later stage runs and
\* notify is not called; when the three stages return neither Requeue nor an
\* error, the pass returns no error and Success if any stage returned
\* Success, so three Success results give Success.
C19_RequeueAborts ==
    \A w \in Workers :
        LET seq == ops[w]
        IN /\ \A i \in StageAt(seq) :
                 seq[i + 1] = ResultRequeue =>
                     /\ \A k \in StageAt(seq) : k <= i
                     /\ pc[w] = "summarize"
                     /\ recResult[w] = ResultRequeue /\ retErr[w] = ""
                     /\ ~Notified(seq)
           /\ (pc[w] \in {"notify", "summarize"} /\ Occurs(seq, "artifact") = 1
               /\ \A rt \in Returns(seq) : rt[1] # ResultRequeue /\ rt[2] = "") =>
                 /\ retErr[w] = ""
                 /\ recResult[w] = (IF \E rt \in Returns(seq) : rt[1] = ResultSuccess THEN ResultSuccess ELSE ResultEmpty)
                 /\ Returns(seq) = {<<ResultSuccess, "">>} => recResult[w] = ResultSuccess

\* The second stage returned Requeue together with an error, after the first
\* had recorded a new artifact.
C19_Witness ==
    \E w \in Workers :
        /\ pc[w] = "summarize" /\ StageAt(ops[w]) # {}
        /\ LastReturn(ops[w]) = <<ResultRequeue, "stage">>
        /\ LastStage(ops[w]) = "source"
        /\ ChecksumOf(oldObj[w]) # ChecksumOf(obj[w]) /\ obj[w].status.artifact # <<>>
        /\ recResult[w] = ResultRequeue /\ retErr[w] = ""

\* The object a method inspects: the new one of an Update event.
Inspected(e) == IF e.kind = "Update" THEN e.ObjectNew ELSE e.Object
IsRepository(o) == o.kind = "HelmRepository"
StatusNonEmpty(st) ==
    \/ st.observedGeneration # 0
    \/ st.conditions # {}
    \/ st.url # ""
    \/ st.artifact # <<>>
    \/ st.lastHandledReconcileAt # 0

\* C14: the migration predicate answers true to a Create, Update or Delete
\* event exactly when the inspected object (the new one of an Update) is a
\* repository of type oci that carries the finalizer or has a non-empty
\* status, any one of observed generation, conditions, URL, artifact and last
\* handled reconcile request making the status non-empty; nil and objects of
\* another kind get false.
C14_MigrationPredicate ==
    verdict.by \in {"MigrationPredicate.Create", "MigrationPredicate.Update", "MigrationPredicate.Delete"} =>
        LET o == Inspected(event)
        IN verdict.value <=>
              /\ IsRepository(o)
              /\ o.hr.type = HelmRepositoryTypeOCI
              /\ o.hr.finalizer \/ StatusNonEmpty(o.hr.status)

\* An Update whose new object has no finalizer and only a last handled
\* reconcile request in its status, the old object carrying the finalizer.
C14_Witness ==
    /\ verdict.by = "MigrationPredicate.Update" /\ verdict.value
    /\ IsRepository(event.ObjectOld) /\ event.ObjectOld.hr.finalizer
    /\ IsRepository(event.ObjectNew) /\ ~event.ObjectNew.hr.finalizer
    /\ event.ObjectNew.hr.status = [EmptyStatus EXCEPT !.lastHandledReconcileAt = 1]

\* C15: the type predicate answers true to a Create, Delete or Generic event
\* exactly when the event's object is a repository whose type equals the
\* expected one; nil, an object of another kind and an empty type under the
\* expected type "default" get false.
C15_TypePredicate ==
    verdict.by \in {"TypePredicate.Create", "TypePredicate.Delete", "TypePredicate.Generic"} =>
        /\ verdict.value <=> (IsRepository(event.Object) /\ event.Object.hr.type = predicate.RepositoryType)
        /\ ~IsRepository(event.Object) => ~verdict.value
        /\ (IsRepository(event.Object) /\ event.Object.hr.type = ""
            /\ predicate.RepositoryType = HelmRepositoryTypeDefault) => ~verdict.value

C15_Witness ==
    /\ verdict.by = "TypePredicate.Create" /\ ~verdict.value
    /\ IsRepository(event.Object) /\ event.Object.hr.type = ""
    /\ predicate.RepositoryType = HelmRepositoryTypeDefault

\* C16: the type predicate's answer to an Update event is true exactly when
\* the new object is a repository of the expected type, and is the answer it
\* gives to every Update event with the same new object and another old one.
C16_UpdateNewOnly ==
    verdict.by = "TypePredicate.Update" =>
        /\ verdict.value <=> (IsRepository(event.ObjectNew) /\ event.ObjectNew.hr.type = predicate.RepositoryType)
        /\ \A o \in EventObjects :
              TypePredicateUpdate(predicate, [event EXCEPT !.ObjectOld = o]) = verdict.value

\* The old object has the expected type, the new one another: false.
C16_Witness ==
    /\ verdict.by = "TypePredicate.Update" /\ ~verdict.value
    /\ IsRepository(event.ObjectOld) /\ event.ObjectOld.hr.type = predicate.RepositoryType
    /\ IsRepository(event.ObjectNew) /\ event.ObjectNew.hr.type # predicate.RepositoryType

\* An object the pipeline is run for.
Supported(o) == o.exists /\ ~TypeChanged(o) /\ ~o.suspend /\ ~o.deleted

\* The persisted status holds an artifact of the remote index under some
\* revision in ds, and no pass in flight has written to the store.
SettledAt(ds) ==
    /\ api.status.artifact # <<>>
    /\ api.status.artifact[1].revision \in ds
    /\ ArtifactInStorageCondition \in api.status.conditions
    /\ \A w \in Workers : ~Did(w, "copied")

\* The revisions that denote the content c: its digests, and a revision in
\* the legacy format that transforms into one.
RevisionsOf(c) ==
    LET digests == {MkDigest(alg, c) : alg \in Algorithms}
    IN {r \in digests \cup {MkDigest("legacy", c)} : TransformLegacyRevision(r) \in digests}

\* C17 as stated: the revision comes to equal the canonical digest of the
\* remote content.
C17_Original == <>[](Supported(api) => SettledAt({MkDigest(Canonical, remote)}))

\* C17: under fair scheduling, once the object is no longer edited, the
\* remote index stays fixed and the calls succeed, an object of the supported
\* type that is neither suspended nor deleted comes to hold, and keeps
\* holding, an artifact whose revision is the canonical digest of the remote
\* content or the revision recorded earlier for that content under another
\* algorithm or in the legacy format, with ArtifactInStorage set, and no pass
\* writes to the store any more.
C17_Converges == <>[](Supported(api) => SettledAt(RevisionsOf(remote)))

\* A pass after the remote index changed finds the store settled on it.
C17_Witness ==
    /\ Done(1) /\ Supported(api) /\ retErr[1] = ""
    /\ envSteps > 0 /\ remote # 1
    /\ Did(1, "artifact")
    /\ SettledAt({MkDigest(Canonical, remote)})

\* The step in which the source stage of worker w returns, having fetched.
SourceFetched(w) == pc[w] = "source" /\ pc'[w] # "source" /\ In(ops'[w], "fetch")

\* C21: when the source stage has fetched the index and the object holds an
\* artifact whose digest is valid and equals the digest of the fetched index
\* under the same algorithm, the stage leaves the existing artifact as the
\* candidate, clears FetchFailed, returns Success and neither validates the
\* index nor patches the status nor builds a new candidate; otherwise it
\* goes on to the validation.
C21_ShortCircuit ==
    [][\A w \in Workers :
          SourceFetched(w) =>
              LET o == obj[w]
              IN IF o.status.artifact # <<>> /\ SameDigest(o.status.artifact[1], remote)
                 THEN /\ artifact'[w] = o.status.artifact[1]
                      /\ obj'[w] = DeleteCondition(o, FetchFailedCondition)
                      /\ retErr'[w] = "" /\ recResult'[w] = ResultSuccess /\ pc'[w] = "artifact"
                      /\ ~chartRepo'[w].index
                      /\ api' = api
                      /\ ops'[w] = ops[w] \o <<"source", "fetch">>
                 ELSE chartRepo'[w].index \/ retErr'[w] = "load"]_vars

\* The stage returned on the match, FetchFailed of an earlier pass cleared.
C21_Witness ==
    \E w \in Workers :
        /\ pc[w] = "artifact" /\ Did(w, "fetch") /\ ~chartRepo[w].index
        /\ FetchFailedCondition \in loaded[w].status.conditions
        /\ FetchFailedCondition \notin obj[w].status.conditions
        /\ artifact[w] = loaded[w].status.artifact[1]

\* The step in which the artifact stage of worker w returns.
ArtifactReturns(w) == pc[w] = "exit" /\ pc'[w] # "exit"

\* C22: on every return of the artifact stage, with or without error, the
\* deferred function removes ArtifactOutdated and sets ArtifactInStorage
\* exactly when the artifact in status has the candidate's revision;
\* otherwise, also when status holds no artifact, it leaves the object as
\* it is.
C22_ExitHandler ==
    [][\A w \in Workers :
          ArtifactReturns(w) =>
              LET o == obj[w]
                  match == /\ o.status.artifact # <<>>
                           /\ TransformLegacyRevision(o.status.artifact[1].revision)
                                 = TransformLegacyRevision(artifact[w].revision)
              IN IF match
                 THEN /\ obj'[w].status.conditions
                            = (o.status.conditions \ {ArtifactOutdatedCondition}) \cup {ArtifactInStorageCondition}
                      /\ obj'[w].status.artifact = o.status.artifact
                 ELSE obj'[w] = o]_vars

\* The stage returned a copy error: the object holds another revision than
\* the candidate's and keeps ArtifactOutdated.
C22_Witness ==
    \E w \in Workers :
        /\ pc[w] = "notify" /\ retErr[w] = "copy"
        /\ obj[w].status.artifact # <<>>
        /\ obj[w].status.artifact[1].revision # artifact[w].revision
        /\ ArtifactOutdatedCondition \in obj[w].status.conditions

\* C23: at the end of every pass that fetched the index, the chart
\* repository holds no temporary index file any more, whatever the outcome
\* of the pass.
C23_ClearedAtEnd ==
    \A w \in Workers :
        pc[w] = "done" /\ Did(w, "fetch") => chartRepo[w] = ZeroChartRepo

\* The positions of a pass between Lock and the return of the artifact stage.
Writing == {"copy", "rename"}
Publishing == {"publish"}

\* C24 as stated: a pass holds the lock of an artifact only during the copy
\* and until the return that follows it, not while it populates the cache
\* and refreshes the alias.
C24_Original ==
    \A w \in Workers : \A p \in Paths : locks[p] = w => pc[w] \in Writing \cup {"exit"}

\* C24: a pass holds the lock of its candidate's path from Lock until the
\* artifact stage returns, that is during the copy and also while the
\* artifact is recorded, the cache populated and the alias refreshed; it
\* holds no other lock, and none once the stage has returned on any path.
C24_LockHeldUntilReturn ==
    \A w \in Workers :
        /\ \A p \in Paths :
              locks[p] = w => pc[w] \in Writing \cup Publishing \cup {"exit"} /\ p = artifact[w].path
        /\ pc[w] \in Writing \cup Publishing => locks[artifact[w].path] = w

\* The stage returned after the alias refresh and released the lock.
C24_Witness ==
    \E w \in Workers :
        /\ pc[w] = "notify" /\ Did(w, "symlink") /\ Did(w, "unlock")
        /\ \A p \in Paths : locks[p] # w

\* The step in which worker w records the artifact and refreshes the alias,
\* and whether the refresh failed in it.
Publishes(w) == pc[w] = "publish" /\ pc'[w] # "publish"
SymlinkFailed == faults' # faults

\* C25: after a successful copy the artifact stage records the new artifact
\* and returns Success without error whether or not the alias refresh
\* succeeds; when the refresh fails the alias and status.url keep their
\* values, and no step of the artifact stage changes status.url other than a
\* successful refresh.
C25_AliasFailureKeepsURL ==
    [][\A w \in Workers :
          /\ Publishes(w) =>
                /\ obj'[w].status.artifact = <<artifact[w]>>
                /\ recResult'[w] = ResultSuccess /\ retErr'[w] = "" /\ pc'[w] = "exit"
                /\ SymlinkFailed => obj'[w].status.url = obj[w].status.url /\ alias' = alias
                /\ ~SymlinkFailed => obj'[w].status.url = "current" /\ alias' = artifact[w].path
          /\ pc[w] \in {"artifact", "copy", "rename", "exit"} /\ pc'[w] # pc[w] =>
                obj'[w].status.url = obj[w].status.url]_vars

\* The stage returned Success with the new artifact recorded, the alias not
\* refreshed and the object still without a published URL.
C25_Witness ==
    \E w \in Workers :
        /\ pc[w] = "notify" /\ Did(w, "symlink") /\ retErr[w] = "" /\ recResult[w] = ResultSuccess
        /\ obj[w].status.artifact = <<artifact[w]>>
        /\ obj[w].status.url = "" /\ alias # artifact[w].path

\* The step in which the storage stage of worker w returns.
StorageReturns(w) == pc[w] = "storage" /\ pc'[w] # "storage"

\* C26: when the storage stage finds the file of the artifact in status
\* absent from the store, it clears status.artifact and status.url and drops
\* ArtifactInStorage; and whenever the object has no artifact after the
\* check, the stage marks it Reconciling, patches the status at once and
\* returns Success, so that the source stage runs next, or returns the error
\* of the patch, which ends the pipeline.
C26_StorageMissing ==
    [][\A w \in Workers :
          StorageReturns(w) =>
              LET o == obj[w]
                  n == obj'[w]
                  absent == o.status.artifact # <<>> /\ files'[o.status.artifact[1].path] = "absent"
              IN /\ absent => /\ n.status.artifact = <<>>
                              /\ n.status.url = ""
                              /\ ArtifactInStorageCondition \notin n.status.conditions
                 /\ ~absent => n.status.artifact = o.status.artifact
                 /\ IF n.status.artifact = <<>>
                    THEN /\ ReconcilingCondition \in n.status.conditions
                         /\ ArtifactInStorageCondition \notin n.status.conditions
                         /\ In(ops'[w], "patch")
                         /\ \/ /\ retErr'[w] = "" /\ recResult'[w] = ResultSuccess /\ pc'[w] = "source"
                               /\ patched'[w] = n
                               /\ api'.status.artifact = <<>>
                               /\ ReconcilingCondition \in api'.status.conditions
                            \/ /\ retErr'[w] = "patch" /\ recResult'[w] = ResultEmpty /\ pc'[w] = "notify"
                               /\ api' = api
                    ELSE /\ retErr'[w] = "" /\ recResult'[w] = ResultSuccess /\ pc'[w] = "source"
                         /\ api' = api /\ ~In(ops'[w], "patch")]_vars

\* The stage found the stored artifact's file gone, cleared the reference
\* and the URL, patched and handed over to the source stage.
C26_Witness ==
    \E w \in Workers :
        /\ pc[w] = "source" /\ Did(w, "missing") /\ Did(w, "patch")
        /\ loaded[w].status.artifact # <<>> /\ loaded[w].status.url # ""
        /\ obj[w].status.artifact = <<>> /\ obj[w].status.url = ""
        /\ api.status.artifact = <<>> /\ ReconcilingCondition \in api.status.conditions

\* C27: every pass that reaches the storage stage calls the garbage
\* collection first, before the existence check and also when the object has
\* no artifact yet; and a failed collection is not an outcome of the stage:
\* the stage returns Success and hands over to the source stage unless its
\* own patch failed, exactly as after a collection that succeeded.
C27_GCFirstAndIgnored ==
    [][\A w \in Workers :
          StorageReturns(w) =>
              LET new == SubSeq(ops'[w], Len(ops[w]) + 1, Len(ops'[w]))
              IN /\ Len(new) >= 2 /\ new[1] = "storage" /\ new[2] = "gc"
                 /\ \A i \in DOMAIN new : new[i] \in {"exists", "missing"} => i > 2
                 /\ retErr'[w] \in {"", "patch"}
                 /\ retErr'[w] = "patch" => In(new, "patch") /\ api' = api
                 /\ IF retErr'[w] = ""
                    THEN recResult'[w] = ResultSuccess /\ pc'[w] = "source"
                    ELSE recResult'[w] = ResultEmpty /\ pc'[w] = "notify"
                 /\ (In(new, "gcFailed") /\ In(new, "exists")) =>
                        /\ retErr'[w] = "" /\ pc'[w] = "source"
                        /\ obj'[w].status.artifact = obj[w].status.artifact
                        /\ obj'[w].status.conditions = obj[w].status.conditions]_vars

\* The collection failed and the pass went on to fetch the index.
C27_Witness ==
    \E w \in Workers :
        /\ Did(w, "gcFailed") /\ Did(w, "fetch")
        /\ obj[w].status.artifact # <<>>

\* The first pass of an object without artifact called the collection.
C27_WitnessFirst ==
    \E w \in Workers :
        /\ pc[w] = "source" /\ Did(w, "gc") /\ ~Did(w, "exists") /\ ~Did(w, "missing")
        /\ loaded[w].status = EmptyStatus

\* C28: when the source stage has returned an error the object carries
\* FetchFailed, and when the artifact stage has returned an error (MkdirAll,
\* Lock, CopyFromPath) the object carries StorageOperationFailed.
C28_ErrorsAsConditions ==
    \A w \in Workers :
        (pc[w] = "notify" /\ retErr[w] # "") =>
            /\ LastStage(ops[w]) = "source" => FetchFailedCondition \in obj[w].status.conditions
            /\ LastStage(ops[w]) = "artifact" => StorageOperationFailedCondition \in obj[w].status.conditions

\* The paths a step writes a file to, and those it removes the file of.
Written == {p \in Paths : files'[p] # files[p] /\ files'[p] # "absent"}
Removed == {p \in Paths : files[p] # "absent" /\ files'[p] = "absent"}
Steps(w) == pc'[w] # pc[w]
\* The pass of worker w is one over an object without finalizer, or over a
\* suspended object that is neither deleted nor of another type.
InFinalizerPass(w) == pc[w] # "idle" /\ ~loaded[w].finalizer
InSuspendedPass(w) ==
    /\ pc[w] # "idle" /\ loaded[w].finalizer /\ loaded[w].suspend
    /\ ~loaded[w].deleted /\ ~TypeChanged(loaded[w])

\* C29: a step of the controller writes a file of the store only as the copy
\* of the artifact stage, to the candidate's path, and adds a cache entry
\* only as the artifact stage's publication, under the candidate's path; it
\* removes files only as the retention collection of the storage stage, which
\* spares the current artifact, or as the purge of reconcileDelete.  No step
\* of the source stage, of a pass that adds the finalizer or of a pass over a
\* suspended object changes the store, the alias or the cache.
C29_StoreFrame ==
    [][/\ Written # {} =>
              \E w \in Workers : pc[w] = "rename" /\ Steps(w) /\ Written = {artifact[w].path}
       /\ cache' # cache =>
              \E w \in Workers : pc[w] = "publish" /\ Steps(w) /\ cache' = cache \cup {artifact[w].path}
       /\ (Removed # {} /\ envSteps' = envSteps) =>
              \E w \in Workers :
                  /\ Steps(w)
                  /\ \/ /\ pc[w] = "storage" /\ In(ops'[w], "gc")
                        /\ obj[w].status.artifact # <<>>
                        /\ obj[w].status.artifact[1].path \notin Removed
                     \/ /\ pc[w] = "dispatch" /\ In(ops'[w], "purge")
                        /\ (obj[w].deleted \/ TypeChanged(obj[w]))
       /\ \A w \in Workers :
              (Steps(w) /\ (pc[w] = "source" \/ InFinalizerPass(w) \/ InSuspendedPass(w))) =>
                  files' = files /\ cache' = cache /\ alias' = alias]_vars

\* A pass wrote the candidate to the store and created its cache entry
\* after the collection of its storage stage had removed an older file.
C29_Witness ==
    \E w \in Workers :
        /\ pc[w] = "notify" /\ Did(w, "copied") /\ Did(w, "cacheSet")
        /\ files[artifact[w].path] = "complete" /\ artifact[w].path \in cache
        /\ \E p \in Paths : files[p] = "absent"

\* C30: at the end of every pass whose pipeline returned Success without
\* error, the object does not carry StorageOperationFailed: neither in the
\* object the pass returns with, nor, once the pass is over, in the status
\* it persisted.
C30_NoStaleStorageFailure ==
    \A w \in Workers :
        (Did(w, "pipeline") /\ recResult[w] = ResultSuccess /\ retErr[w] = "") =>
            /\ pc[w] = "summarize" => StorageOperationFailedCondition \notin obj[w].status.conditions
            /\ pc[w] = "done" /\ api.exists => StorageOperationFailedCondition \notin api.status.conditions

\* The pass loaded an object that carries the finalizer and is both
\* suspended and under deletion.
SuspendedDeletion(w) ==
    /\ Returned(w) /\ loaded[w].finalizer /\ loaded[w].deleted /\ loaded[w].suspend

\* C31: a pass on an object that carries the finalizer and is both suspended
\* and under deletion takes the purge path and not the suspended return; when
\* the purge succeeds no file of the object is left, the artifact reference,
\* the published URL and the conditions are cleared and the finalizer is
\* removed, and when it fails the pass returns the error and keeps the
\* finalizer.
C31_DeletionBeforeSuspend ==
    \A w \in Workers :
        SuspendedDeletion(w) =>
            /\ Did(w, "purge") /\ ~Did(w, "suspended")
            /\ recResult[w] = ResultEmpty
            /\ IF Did(w, "purgeFailed")
               THEN obj[w].finalizer /\ (pc[w] = "summarize" => retErr[w] = "GarbageCollectionFailed")
               ELSE /\ ~obj[w].finalizer
                    /\ NoFileLeft /\ alias = 0
                    /\ StatusCore(obj[w]) = Cleared
                    /\ pc[w] = "summarize" => retErr[w] = ""

\* A suspended object that holds an artifact was deleted, purged and
\* released.
C31_Witness ==
    \E w \in Workers :
        /\ Done(w) /\ SuspendedDeletion(w) /\ ~Did(w, "purgeFailed")
        /\ loaded[w].status.artifact # <<>>
        /\ ~obj[w].finalizer /\ NoFileLeft

\* A status that claims a stored artifact or publishes a URL references an
\* artifact.
Referenced(st) ==
    /\ ArtifactInStorageCondition \in st.conditions => st.artifact # <<>>
    /\ st.url # "" => st.artifact # <<>>

\* C32: at the end of every pass, whatever succeeded and failed in it and in
\* the passes before it, the object the pass returns with and the status it
\* persisted carry ArtifactInStorage only together with an artifact
\* reference, and a published URL only together with an artifact reference.
C32_StatusReferencesArtifact ==
    \A w \in Workers :
        /\ (Returned(w) /\ ~Did(w, "notFound")) => Referenced(obj[w].status)
        /\ (Done(w) /\ api.exists) => Referenced(api.status)

\* An object that started with an empty status ends a pass with its
\* artifact stored and published.
C32_Witness ==
    \E w \in Workers :
        /\ Done(w) /\ loaded[w].status = EmptyStatus
        /\ obj[w].status.artifact # <<>> /\ obj[w].status.url # ""
        /\ ArtifactInStorageCondition \in obj[w].status.conditions
        /\ api.status = obj[w].status

====
